---- MODULE Spec2Model ----
(***************************************************************************)
(* EduPace: role-based academic records application.                       *)
(*                                                                         *)
(* The module models the persistent store (users, the three profile        *)
(* tables, courses, teacher assignments, outcomes, grades), the role       *)
(* resolver and permission predicates of utils.py, the grade ingestion     *)
(* of utils.process_excel_grades and the request handlers of views.py.     *)
(* A request is handled by one action, which models the whole handler      *)
(* (decorators included) and leaves the request and its response in        *)
(* `last`; Deliver hands the response to the client and clears it.         *)
(***************************************************************************)
EXTENDS Integers, Sequences, FiniteSets, TLC

(***************************************************************************)
(* Bounds of the model.                                                    *)
(***************************************************************************)
MaxCourses == 1
MaxRows == 2
MaxUsers == 3

(***************************************************************************)
(* Universes the inputs are drawn from.                                    *)
(***************************************************************************)
Anonymous == "AnonymousUser"
UserNames == {"board1", "teacher1", "student1", "teacher2", "student2"}
Principals == UserNames \cup {Anonymous}
Methods == {"GET", "POST"}
CourseIds == 1..MaxCourses
CourseCodes == {"CS101", "CS102"}
CreditInputs == {3, 11}
OutcomeCodes == {"LO1"}
Descriptions == {"d1", "d2"}
Semesters == {"", "Fall"}
AcademicYears == {"2024"}
StudentIds == {"STU001", "STU002"}

\* Option values: None is the empty tuple, Some(x) a one-element tuple.
None == <<>>
Some(x) == <<x>>

VARIABLES
    users,                  \* auth User rows (usernames)
    teacher_profile,        \* users with a Teacher row (OneToOne)
    student_profile,        \* Student rows: [user, student_id]
    academic_board_profile, \* users with an AcademicBoard row (OneToOne)
    teacher_courses,        \* Teacher.courses (ManyToMany): user -> set of course ids
    courses,                \* Course rows: [id, code, credits, is_locked]
    learning_outcomes,      \* LearningOutcome rows: [id, course, code, description, created_by]
    program_outcomes,       \* ProgramOutcome rows: [id, course, code, description, created_by]
    grades,                 \* Grade rows: [id, student, course, semester, academic_year,
                            \*              grade, percentage, created_by]
    last,                   \* the request in hand and its response, or NoRequest
    in_flight               \* worker -> the request it is in the middle of, or NoWork

vars == <<users, teacher_profile, student_profile, academic_board_profile,
          teacher_courses, courses, learning_outcomes, program_outcomes,
          grades, last, in_flight>>

profiles == <<users, teacher_profile, student_profile, academic_board_profile>>
store == <<users, teacher_profile, student_profile, academic_board_profile,
           teacher_courses, courses, learning_outcomes, program_outcomes, grades>>

(***************************************************************************)
(* models.py                                                               *)
(***************************************************************************)
\* Grade.GRADE_CHOICES
GRADE_CHOICES == {"A+", "A", "A-", "B+", "B", "B-", "C+", "C", "C-", "D", "F"}

\* Grade.Meta.unique_together
GradeKey(g) == <<g.student, g.course, g.semester, g.academic_year>>

\* The primary key the store gives a new row of a table: one no row of it holds.
NewId(rows) ==
    CHOOSE i \in 1..(Cardinality(rows) + 1) :
        /\ \A r \in rows : r.id # i
        /\ \A j \in 1..(i - 1) : \E r \in rows : r.id = j

CourseById(cid) == CHOOSE c \in courses : c.id = cid
CourseExists(cid) == \E c \in courses : c.id = cid

\* on_delete=CASCADE of the rows that point to a course
CascadeDeleteCourse(cid) ==
    /\ courses' = {c \in courses : c.id # cid}
    /\ learning_outcomes' = {o \in learning_outcomes : o.course # cid}
    /\ program_outcomes' = {o \in program_outcomes : o.course # cid}
    /\ grades' = {g \in grades : g.course # cid}
    /\ teacher_courses' = [u \in UserNames |-> teacher_courses[u] \ {cid}]

(***************************************************************************)
(* utils.py: role resolver and permission predicates                       *)
(***************************************************************************)
is_authenticated(user) == user \in users

has_student_profile(user) == \E s \in student_profile : s.user = user

\* Mutant: the student profile is probed first.
get_user_role_student_first(user) ==
    IF ~is_authenticated(user) THEN "None"
    ELSE IF has_student_profile(user) THEN "student"
    ELSE IF user \in teacher_profile THEN "teacher"
    ELSE IF user \in academic_board_profile THEN "academic_board"
    ELSE "None"

get_user_role(user) ==
    IF ~is_authenticated(user) THEN "None"
    ELSE IF user \in teacher_profile THEN "teacher"
    ELSE IF has_student_profile(user) THEN "student"
    ELSE IF user \in academic_board_profile THEN "academic_board"
    ELSE "None"

\* Mutant: the lock is not looked at.
check_course_edit_permission_no_lock(user, course) ==
    get_user_role(user) = "academic_board"

\* Mutant: the role is not looked at.
check_course_edit_permission_any_role(user, course) ==
    ~course.is_locked

check_course_edit_permission(user, course) ==
    IF get_user_role(user) # "academic_board" THEN FALSE
    ELSE ~course.is_locked

\* Mutant: the teacher's course set is not looked at.
check_learning_outcome_permission_any_teacher(user, course) ==
    IF get_user_role(user) # "teacher" THEN FALSE
    ELSE ~course.is_locked

check_learning_outcome_permission(user, course) ==
    IF get_user_role(user) # "teacher" THEN FALSE
    ELSE IF course.id \notin teacher_courses[user] THEN FALSE
    ELSE ~course.is_locked

check_grade_permission(user, course) ==
    check_learning_outcome_permission(user, course)

(***************************************************************************)
(* Spreadsheets, as pandas.read_excel hands them to process_excel_grades:  *)
(* the header names as written and the data rows in sheet order, one cell  *)
(* per column.  Cells are strings; NaN is the empty cell.                  *)
(***************************************************************************)
NaN == "NaN"

\* Header names as written in the sheet.
ColumnNames == {"Student ID", " student id ", "Grade", "GRADE", "Percentage",
                "Percent", "Name", "Grade Percentage", "Student ID Grade"}

\* str.strip().str.lower() on the header names
strip_lower(name) ==
    CASE name = "Student ID" -> "student id"
      [] name = " student id " -> "student id"
      [] name = "Grade" -> "grade"
      [] name = "GRADE" -> "grade"
      [] name = "Percentage" -> "percentage"
      [] name = "Percent" -> "percent"
      [] name = "Name" -> "name"
      [] name = "Grade Percentage" -> "grade percentage"
      [] name = "Student ID Grade" -> "student id grade"

\* `word in col` on the normalised header names
Contains(col, word) ==
    CASE col = "student id" -> word \in {"student", "id"}
      [] col = "grade" -> word \in {"grade"}
      [] col = "percentage" -> word \in {"percentage", "percent"}
      [] col = "percent" -> word \in {"percent"}
      [] col = "name" -> FALSE
      [] col = "grade percentage" -> word \in {"grade", "percentage", "percent"}
      [] col = "student id grade" -> word \in {"student", "id", "grade"}

\* str(cell).strip()
str_strip(cell) ==
    CASE cell = NaN -> "nan"
      [] cell = " STU002 " -> "STU002"
      [] OTHER -> cell

\* str.upper()
upper(s) ==
    CASE s = "b" -> "B"
      [] s = "nan" -> "NAN"
      [] s = "abc" -> "ABC"
      [] OTHER -> s

\* float(cell): Some(number), or None when float() raises ValueError
float(cell) ==
    CASE cell = "50" -> Some(50)
      [] cell = "0" -> Some(0)
      [] cell = "100" -> Some(100)
      [] cell = "-5" -> Some(-5)
      [] cell = "150" -> Some(150)
      [] cell = "1000" -> Some(1000)
      [] OTHER -> None

\* Grade.percentage = DecimalField(max_digits=5, decimal_places=2)
MAX_DIGITS == 5
DECIMAL_PLACES == 2

RECURSIVE Pow10(_)
Pow10(n) == IF n = 0 THEN 1 ELSE 10 * Pow10(n - 1)

\* Saving a DecimalField quantizes the value to decimal_places within
\* max_digits; a value with more integer digits raises InvalidOperation.
FitsDecimalField(p) ==
    /\ p < Pow10(MAX_DIGITS - DECIMAL_PLACES)
    /\ -p < Pow10(MAX_DIGITS - DECIMAL_PLACES)

(***************************************************************************)
(* utils.process_excel_grades                                              *)
(***************************************************************************)
NoCols == [student_id_col |-> None, grade_col |-> None, percentage_col |-> None]

\* Mutant: the percentage column is not mapped.
RECURSIVE DetectColumns_no_percentage(_, _, _)
DetectColumns_no_percentage(cols, i, found) ==
    IF i > Len(cols) THEN found
    ELSE LET col == cols[i] IN
         DetectColumns_no_percentage(cols, i + 1,
            IF Contains(col, "student") /\ Contains(col, "id")
              THEN [found EXCEPT !.student_id_col = Some(col)]
            ELSE IF Contains(col, "grade")
              THEN [found EXCEPT !.grade_col = Some(col)]
            ELSE found)

\* Mutant: the columns are taken by position, whatever their names.
DetectColumns_positional(cols, i, found) ==
    [student_id_col |-> Some(cols[1]), grade_col |-> Some(cols[Len(cols)]),
     percentage_col |-> None]

\* for col in df.columns: if / elif / elif  (a later match replaces an earlier)
RECURSIVE DetectColumns(_, _, _)
DetectColumns(cols, i, found) ==
    IF i > Len(cols) THEN found
    ELSE LET col == cols[i] IN
         DetectColumns(cols, i + 1,
            IF Contains(col, "student") /\ Contains(col, "id")
              THEN [found EXCEPT !.student_id_col = Some(col)]
            ELSE IF Contains(col, "grade")
              THEN [found EXCEPT !.grade_col = Some(col)]
            ELSE IF Contains(col, "percentage") \/ Contains(col, "percent")
              THEN [found EXCEPT !.percentage_col = Some(col)]
            ELSE found)

\* row[col]: the cell of the column of that (normalised) name
Cell(cols, row, col) == row[CHOOSE i \in 1..Len(cols) : cols[i] = col]

\* Mutant: the header row is not counted.
RowError_no_header(kind, student_id, grade, row, detail) ==
    [kind |-> kind, student_id |-> student_id, grade |-> grade,
     row |-> row - 1, detail |-> detail]

RowError(kind, student_id, grade, row, detail) ==
    [kind |-> kind, student_id |-> student_id, grade |-> grade,
     row |-> row, detail |-> detail]

\* Mutant: Grade.objects.create, a row is always added.
update_or_create_always_create(gs, student, course, semester, academic_year, grade, percentage, created_by) ==
    [raised |-> "", created |-> TRUE,
     grades |-> gs \cup {[id |-> NewId(gs), student |-> student,
                          course |-> course, semester |-> semester,
                          academic_year |-> academic_year,
                          grade |-> grade, percentage |-> percentage,
                          created_by |-> created_by]}]

\* Mutant: Grade.objects.create under unique_together, an existing key is an
\* IntegrityError.
update_or_create_create_unique(gs, student, course, semester, academic_year, grade, percentage, created_by) ==
    IF \E g \in gs : GradeKey(g) = <<student, course, semester, academic_year>>
      THEN [raised |-> "IntegrityError", created |-> FALSE, grades |-> gs]
    ELSE update_or_create_always_create(gs, student, course, semester, academic_year,
                                        grade, percentage, created_by)

\* Mutant: Grade.objects.get_or_create, an existing row is left as it is.
update_or_create_get_or_create(gs, student, course, semester, academic_year, grade, percentage, created_by) ==
    IF \E g \in gs : GradeKey(g) = <<student, course, semester, academic_year>>
      THEN [raised |-> "", created |-> FALSE, grades |-> gs]
    ELSE update_or_create_always_create(gs, student, course, semester, academic_year,
                                        grade, percentage, created_by)

\* Grade.objects.update_or_create(student=, course=, semester=, academic_year=,
\* defaults={grade, percentage, created_by}): the rows of that key are looked
\* up; none: a row is created; one: its defaults are overwritten; several:
\* get() raises MultipleObjectsReturned.  Saving raises InvalidOperation when
\* the percentage does not fit the column.
\* Returns [raised, created, grades].
update_or_create(gs, student, course, semester, academic_year, grade, percentage, created_by) ==
    LET key == <<student, course, semester, academic_year>>
        found == {g \in gs : GradeKey(g) = key}
    IN  IF Cardinality(found) > 1
          THEN [raised |-> "MultipleObjectsReturned", created |-> FALSE, grades |-> gs]
        ELSE IF percentage # None /\ ~FitsDecimalField(percentage[1])
          THEN [raised |-> "InvalidOperation", created |-> FALSE, grades |-> gs]
        ELSE IF found = {}
          THEN [raised |-> "", created |-> TRUE,
                grades |-> gs \cup {[id |-> NewId(gs), student |-> student,
                                     course |-> course, semester |-> semester,
                                     academic_year |-> academic_year,
                                     grade |-> grade, percentage |-> percentage,
                                     created_by |-> created_by]}]
        ELSE [raised |-> "", created |-> FALSE,
              grades |-> {IF g \in found
                            THEN [g EXCEPT !.grade = grade,
                                           !.percentage = percentage,
                                           !.created_by = created_by]
                            ELSE g : g \in gs}]

\* Mutant: every grade string is let through.
valid_grades_unchecked == GRADE_CHOICES \cup {"Z", "NAN", "X"}

\* valid_grades = [choice[0] for choice in Grade.GRADE_CHOICES]
valid_grades == GRADE_CHOICES

\* The body of the row loop for the row of index `index` (0-based), on the
\* accumulators acc = [grades, grades_created, errors].
ProcessRow(acc, cols, found, row, index, course, semester, academic_year, created_by) ==
    LET student_id == str_strip(Cell(cols, row, found.student_id_col[1]))
        grade_value == upper(str_strip(Cell(cols, row, found.grade_col[1])))
        has_percentage ==
            /\ found.percentage_col # None
            /\ Cell(cols, row, found.percentage_col[1]) # NaN
        percentage ==
            IF has_percentage THEN float(Cell(cols, row, found.percentage_col[1]))
            ELSE None
        students == {s \in student_profile : s.student_id = student_id}
    IN  IF has_percentage /\ percentage = None
          THEN [acc EXCEPT !.errors = Append(@,
                    RowError("exception", "", "", index + 2, "ValueError"))]
        ELSE IF students = {}
          THEN [acc EXCEPT !.errors = Append(@,
                    RowError("not_found", student_id, "", index + 2, ""))]
        ELSE IF grade_value \notin valid_grades
          THEN [acc EXCEPT !.errors = Append(@,
                    RowError("invalid_grade", student_id, grade_value, index + 2, ""))]
        ELSE LET student == CHOOSE s \in students : TRUE
                 r == update_or_create(acc.grades, student.user, course.id, semester,
                                       academic_year, grade_value, percentage, created_by)
             IN  IF r.raised # ""
                   THEN [acc EXCEPT !.errors = Append(@,
                            RowError("exception", "", "", index + 2, r.raised))]
                 ELSE [grades |-> r.grades,
                       grades_created |-> acc.grades_created + (IF r.created THEN 1 ELSE 0),
                       errors |-> acc.errors]

\* Mutant: the loop is left at the first row error.
RECURSIVE RowLoop_stops_at_first_error(_, _, _, _, _, _, _, _, _)
RowLoop_stops_at_first_error(acc, cols, found, rows, i, course, semester, academic_year, created_by) ==
    IF i > Len(rows) \/ acc.errors # <<>> THEN acc
    ELSE RowLoop_stops_at_first_error(
             ProcessRow(acc, cols, found, rows[i], i - 1, course, semester,
                        academic_year, created_by),
             cols, found, rows, i + 1, course, semester, academic_year, created_by)

\* for index, row in df.iterrows()
RECURSIVE RowLoop(_, _, _, _, _, _, _, _, _)
RowLoop(acc, cols, found, rows, i, course, semester, academic_year, created_by) ==
    IF i > Len(rows) THEN acc
    ELSE RowLoop(ProcessRow(acc, cols, found, rows[i], i - 1, course, semester,
                            academic_year, created_by),
                 cols, found, rows, i + 1, course, semester, academic_year, created_by)

Message(text, count, nerrors) == [text |-> text, count |-> count, nerrors |-> nerrors]

\* Returns [result, grades]: the tuple the function returns and the Grade
\* table it leaves.
process_excel_grades(excel_file, course, semester, academic_year, created_by) ==
    IF ~excel_file.readable
      THEN [result |-> <<FALSE, Message("Error processing Excel file", 0, 0), <<>> >>,
            grades |-> grades]
    ELSE
    LET cols == [i \in 1..Len(excel_file.columns) |-> strip_lower(excel_file.columns[i])]
        found == DetectColumns(cols, 1, NoCols)
    IN  IF found.student_id_col = None \/ found.grade_col = None
          THEN [result |-> <<FALSE,
                             Message("Excel file must contain 'Student ID' and 'Grade' columns", 0, 0)>>,
                grades |-> grades]
        ELSE LET acc == RowLoop([grades |-> grades, grades_created |-> 0, errors |-> <<>>],
                                cols, found, excel_file.rows, 1, course, semester,
                                academic_year, created_by)
             IN  [result |-> <<TRUE,
                               Message("Successfully created/updated", acc.grades_created,
                                       Len(acc.errors)),
                               acc.errors>>,
                  grades |-> acc.grades]

(***************************************************************************)
(* Requests and responses                                                  *)
(***************************************************************************)
NoForm == [empty |-> TRUE]
NoResult == <<>>
NoRequest == [view |-> "", user |-> "", method |-> "", target |-> 0, form |-> NoForm,
              status |-> "", to |-> "", messages |-> <<>>, result |-> NoResult]

\* messages.error / messages.success / messages.warning
Msg(level, text) == [level |-> level, text |-> text, info |-> <<>>]
MsgInfo(level, text, info) == [level |-> level, text |-> text, info |-> info]
\* A message made of the text process_excel_grades returned
MsgOf(level, message) ==
    MsgInfo(level, message.text, <<message.count, message.nerrors>>)

Request(view, user, method, target, form) ==
    [view |-> view, user |-> user, method |-> method, target |-> target, form |-> form]

Response(status, to, messages, result) ==
    [status |-> status, to |-> to, messages |-> messages, result |-> result]

Respond(req, resp) ==
    last' = [view |-> req.view, user |-> req.user, method |-> req.method,
             target |-> req.target, form |-> req.form,
             status |-> resp.status, to |-> resp.to, messages |-> resp.messages,
             result |-> resp.result]

redirect(to, messages) == Response("redirect", to, messages, NoResult)
render(template) == Response("render", template, <<>>, NoResult)
Http404 == Response("not_found", "", <<>>, NoResult)
ServerError(exception) == Response("server_error", exception, <<>>, NoResult)

\* Mutant: any logged-in user is let in.
role_required_login_only(user, role) ==
    IF ~is_authenticated(user) THEN redirect("login", <<>>) ELSE NoResult

\* @login_required, then @role_required(role): the response that refuses the
\* request, or NoResult when the view function is entered.
role_required(user, role) ==
    IF ~is_authenticated(user)
      THEN redirect("login", <<>>)
    ELSE IF get_user_role(user) # role
      THEN redirect("dashboard_redirect",
                    <<Msg("error", "You do not have permission to access this page.")>>)
    ELSE NoResult

(***************************************************************************)
(* forms.py                                                                *)
(***************************************************************************)
\* LearningOutcomeForm / ProgramOutcomeForm: code and description are required.
\* The course is not a field of the form, so unique_together (course, code)
\* is not validated by the form: the store raises IntegrityError on save.
OutcomeForms == [code : OutcomeCodes \cup {""}, description : Descriptions]
OutcomeFormIsValid(form) == form.code # ""

\* CourseForm: code (unique), credits (1..10), is_locked.
CourseForms == [code : CourseCodes, credits : CreditInputs, is_locked : BOOLEAN]
CourseFormIsValid(form, instance_id) ==
    /\ form.credits >= 1
    /\ form.credits <= 10
    /\ \A c \in courses : c.code = form.code => c.id = instance_id

\* AssignTeacherToCourseForm: teacher is one of Teacher.objects.all().
AssignForms == [teacher : UserNames]
AssignFormIsValid(form) == form.teacher \in teacher_profile

\* GradeUploadForm: excel_file and course are required, and course is one of
\* teacher.courses.all(); semester and academic_year are optional.
GradeUploadFormIsValid(form, teacher) ==
    /\ form.excel_file # None
    /\ form.course \in teacher_courses[teacher]

(***************************************************************************)
(* views.py: dashboard_redirect                                            *)
(***************************************************************************)
dashboard_redirect(user) ==
    LET req == Request("dashboard_redirect", user, "GET", 0, NoForm)
        role == get_user_role(user)
    IN
    /\ UNCHANGED store
    /\ IF ~is_authenticated(user)
         THEN Respond(req, redirect("login", <<>>))
       ELSE IF role = "student"
         THEN Respond(req, redirect("student_dashboard", <<>>))
       ELSE IF role = "teacher"
         THEN Respond(req, redirect("teacher_dashboard", <<>>))
       ELSE IF role = "academic_board"
         THEN Respond(req, redirect("academic_board_dashboard", <<>>))
       ELSE Respond(req, redirect("login",
                <<Msg("error", "Your account is not associated with any role.")>>))

(***************************************************************************)
(* views.py: teacher views                                                 *)
(***************************************************************************)
add_learning_outcome(user, method, course_id, form) ==
    LET req == Request("add_learning_outcome", user, method, course_id, form)
        refused == role_required(user, "teacher")
    IN
    IF refused # NoResult
         THEN Respond(req, refused) /\ UNCHANGED store
       ELSE IF ~CourseExists(course_id)
         THEN Respond(req, Http404) /\ UNCHANGED store
       ELSE LET course == CourseById(course_id) IN
         IF ~check_learning_outcome_permission(user, course)
           THEN /\ Respond(req, redirect("teacher_course_detail",
                       <<Msg("error", "You cannot add learning outcomes to this course.")>>))
                /\ UNCHANGED store
         ELSE IF method = "POST" /\ OutcomeFormIsValid(form)
           THEN IF \E o \in learning_outcomes : o.course = course_id /\ o.code = form.code
                  THEN Respond(req, ServerError("IntegrityError")) /\ UNCHANGED store
                ELSE /\ learning_outcomes' = learning_outcomes \cup
                            {[id |-> NewId(learning_outcomes), course |-> course_id,
                              code |-> form.code, description |-> form.description,
                              created_by |-> user]}
                     /\ Respond(req, redirect("teacher_course_detail",
                            <<Msg("success", "Learning outcome added successfully.")>>))
                     /\ UNCHANGED <<profiles, teacher_courses, courses,
                                    program_outcomes, grades>>
         ELSE Respond(req, render("teacher/add_learning_outcome.html"))
              /\ UNCHANGED store

edit_learning_outcome(user, method, lo_id, form) ==
    LET req == Request("edit_learning_outcome", user, method, lo_id, form)
        refused == role_required(user, "teacher")
    IN
    IF refused # NoResult
         THEN Respond(req, refused) /\ UNCHANGED store
       ELSE IF ~\E o \in learning_outcomes : o.id = lo_id
         THEN Respond(req, Http404) /\ UNCHANGED store
       ELSE LET learning_outcome == CHOOSE o \in learning_outcomes : o.id = lo_id
                course == CourseById(learning_outcome.course) IN
         IF course.id \notin teacher_courses[user]
           THEN /\ Respond(req, redirect("teacher_dashboard",
                       <<Msg("error", "You do not have permission to edit this learning outcome.")>>))
                /\ UNCHANGED store
         ELSE IF course.is_locked
           THEN /\ Respond(req, redirect("teacher_course_detail",
                       <<Msg("error", "This course is locked. You cannot edit learning outcomes.")>>))
                /\ UNCHANGED store
         ELSE IF method = "POST" /\ OutcomeFormIsValid(form)
           THEN IF \E o \in learning_outcomes :
                        o.id # lo_id /\ o.course = course.id /\ o.code = form.code
                  THEN Respond(req, ServerError("IntegrityError")) /\ UNCHANGED store
                ELSE /\ learning_outcomes' =
                            {IF o.id = lo_id
                               THEN [o EXCEPT !.code = form.code,
                                              !.description = form.description]
                               ELSE o : o \in learning_outcomes}
                     /\ Respond(req, redirect("teacher_course_detail",
                            <<Msg("success", "Learning outcome updated successfully.")>>))
                     /\ UNCHANGED <<profiles, teacher_courses, courses,
                                    program_outcomes, grades>>
         ELSE Respond(req, render("teacher/edit_learning_outcome.html"))
              /\ UNCHANGED store

delete_learning_outcome(user, method, lo_id) ==
    LET req == Request("delete_learning_outcome", user, method, lo_id, NoForm)
        refused == role_required(user, "teacher")
    IN
    IF refused # NoResult
         THEN Respond(req, refused) /\ UNCHANGED store
       ELSE IF ~\E o \in learning_outcomes : o.id = lo_id
         THEN Respond(req, Http404) /\ UNCHANGED store
       ELSE LET learning_outcome == CHOOSE o \in learning_outcomes : o.id = lo_id
                course == CourseById(learning_outcome.course) IN
         IF course.id \notin teacher_courses[user]
           THEN /\ Respond(req, redirect("teacher_dashboard",
                       <<Msg("error", "You do not have permission to delete this learning outcome.")>>))
                /\ UNCHANGED store
         ELSE IF course.is_locked
           THEN /\ Respond(req, redirect("teacher_course_detail",
                       <<Msg("error", "This course is locked. You cannot delete learning outcomes.")>>))
                /\ UNCHANGED store
         ELSE IF method = "POST"
           THEN /\ learning_outcomes' = {o \in learning_outcomes : o.id # lo_id}
                /\ Respond(req, redirect("teacher_course_detail",
                       <<Msg("success", "Learning outcome deleted successfully.")>>))
                /\ UNCHANGED <<profiles, teacher_courses, courses,
                               program_outcomes, grades>>
         ELSE Respond(req, render("teacher/delete_learning_outcome.html"))
              /\ UNCHANGED store

\* for error in errors[:10]: messages.warning(request, error)
RECURSIVE Warnings(_, _)
Warnings(errors, i) ==
    IF i > Len(errors) \/ i > 10 THEN <<>>
    ELSE <<MsgInfo("warning", errors[i].kind, <<errors[i]>>)>> \o Warnings(errors, i + 1)

\* Mutant: the grades are written to the course chosen in the form.
upload_grades_to_form_course(user, method, course_id, form) ==
    LET req == Request("upload_grades", user, method, course_id, form)
        refused == role_required(user, "teacher")
    IN
    IF refused # NoResult
         THEN Respond(req, refused) /\ UNCHANGED store
       ELSE IF ~CourseExists(course_id)
         THEN Respond(req, Http404) /\ UNCHANGED store
       ELSE LET course == CourseById(course_id) IN
         IF ~check_grade_permission(user, course)
           THEN /\ Respond(req, redirect("teacher_course_detail",
                       <<Msg("error", "You cannot upload grades for this course.")>>))
                /\ UNCHANGED store
         ELSE IF method = "POST" /\ GradeUploadFormIsValid(form, user)
           THEN \E r \in {process_excel_grades(form.excel_file[1], CourseById(form.course),
                                              form.semester, form.academic_year, user)} :
                    /\ grades' = r.grades
                    /\ UNCHANGED <<profiles, teacher_courses, courses,
                                   learning_outcomes, program_outcomes>>
                    /\ IF Len(r.result) # 3
                         THEN Respond(req, Response("server_error", "ValueError", <<>>, r.result))
                       ELSE IF r.result[1]
                         THEN Respond(req, Response("redirect", "teacher_course_detail",
                                  <<MsgOf("success", r.result[2])>> \o Warnings(r.result[3], 1),
                                  r.result))
                       ELSE Respond(req, Response("redirect", "teacher_course_detail",
                                  <<MsgOf("error", r.result[2])>>, r.result))
         ELSE Respond(req, render("teacher/upload_grades.html"))
              /\ UNCHANGED store

upload_grades(user, method, course_id, form) ==
    LET req == Request("upload_grades", user, method, course_id, form)
        refused == role_required(user, "teacher")
    IN
    IF refused # NoResult
         THEN Respond(req, refused) /\ UNCHANGED store
       ELSE IF ~CourseExists(course_id)
         THEN Respond(req, Http404) /\ UNCHANGED store
       ELSE LET course == CourseById(course_id) IN
         IF ~check_grade_permission(user, course)
           THEN /\ Respond(req, redirect("teacher_course_detail",
                       <<Msg("error", "You cannot upload grades for this course.")>>))
                /\ UNCHANGED store
         ELSE IF method = "POST" /\ GradeUploadFormIsValid(form, user)
           THEN \E r \in {process_excel_grades(form.excel_file[1], course, form.semester,
                                              form.academic_year, user)} :
                    /\ grades' = r.grades
                    /\ UNCHANGED <<profiles, teacher_courses, courses,
                                   learning_outcomes, program_outcomes>>
                    /\ IF Len(r.result) # 3
                         \* success, message, errors = ...: ValueError, not handled
                         THEN Respond(req, Response("server_error", "ValueError", <<>>, r.result))
                       ELSE IF r.result[1]
                         THEN Respond(req, Response("redirect", "teacher_course_detail",
                                  <<MsgOf("success", r.result[2])>> \o Warnings(r.result[3], 1),
                                  r.result))
                       ELSE Respond(req, Response("redirect", "teacher_course_detail",
                                  <<MsgOf("error", r.result[2])>>, r.result))
         ELSE Respond(req, render("teacher/upload_grades.html"))
              /\ UNCHANGED store

\* User.get_full_name(): first and last name, trimmed.  The sample users carry
\* the names the command gives them; a user added through the admin site has
\* none.
get_full_name(user) ==
    CASE user = "board1" -> "Academic Board"
      [] user = "teacher1" -> "Jane Smith"
      [] user = "student1" -> "John Doe"
      [] OTHER -> ""

\* Mutant: no fallback to the username.
display_name_full_name_only(user) == get_full_name(user)

\* grade.student.user.get_full_name() or grade.student.user.username
display_name(user) ==
    IF get_full_name(user) # "" THEN get_full_name(user) ELSE user

\* `grade.percentage or ''` as the cell reads: None and the zero Decimal are
\* falsy and give the empty string.
percentage_or_empty(percentage) ==
    IF percentage = None THEN ""
    ELSE CASE percentage[1] = 0 -> ""
           [] percentage[1] = 50 -> "50.00"
           [] percentage[1] = 100 -> "100.00"
           [] percentage[1] = 150 -> "150.00"
           [] percentage[1] = -5 -> "-5.00"

\* The keys of the dict appended per grade, in insertion order: the columns
\* of the DataFrame.
ReportColumns ==
    <<"Student ID", "Student Name", "Grade", "Percentage", "Semester", "Academic Year">>

ReportRow(g) ==
    <<(CHOOSE s \in student_profile : s.user = g.student).student_id,
      display_name(g.student),
      g.grade,
      percentage_or_empty(g.percentage),
      g.semester,
      g.academic_year>>

\* The strings Meta.ordering compares, in their collation order.
Collation(str) ==
    CASE str = "" -> 0
      [] str = "2024" -> 1
      [] str = "Fall" -> 2

\* Grade.Meta.ordering = ['-academic_year', '-semester', 'course']: g must
\* come before h.
OrderedBefore(g, h) ==
    \/ Collation(g.academic_year) > Collation(h.academic_year)
    \/ /\ g.academic_year = h.academic_year
       /\ Collation(g.semester) > Collation(h.semester)

\* The orders in which the queryset may be iterated: Meta.ordering decides
\* between rows that differ in year or semester, the database between the
\* others.
QueryOrders(gs) ==
    {order \in [1..Cardinality(gs) -> gs] :
        /\ \A i, j \in 1..Cardinality(gs) : i # j => order[i] # order[j]
        /\ \A i, j \in 1..Cardinality(gs) : i < j => ~OrderedBefore(order[j], order[i])}

\* What becomes of the DataFrame: written and rendered, written and not
\* rendered (excel_to_pdf returns False), or an exception before the
\* renderer is called.
ExportOutcomes == {"rendered", "not_rendered", "exception"}

convert_grades_to_pdf(user, method, course_id) ==
    LET req == Request("convert_grades_to_pdf", user, method, course_id, NoForm)
        refused == role_required(user, "teacher")
    IN
    /\ UNCHANGED store
    /\ IF refused # NoResult
         THEN Respond(req, refused)
       ELSE IF ~CourseExists(course_id)
         THEN Respond(req, Http404)
       ELSE IF course_id \notin teacher_courses[user]
         THEN Respond(req, redirect("teacher_dashboard",
                  <<Msg("error", "You do not teach this course.")>>))
       ELSE IF {g \in grades : g.course = course_id} = {}
         THEN Respond(req, redirect("teacher_course_detail",
                  <<Msg("error", "No grades found for this course.")>>))
       ELSE \E order \in QueryOrders({g \in grades : g.course = course_id}),
               outcome \in ExportOutcomes :
                LET data == [k \in 1..Len(order) |-> ReportRow(order[k])] IN
                IF outcome = "rendered"
                  THEN Respond(req, Response("file", "application/pdf", <<>>,
                                             <<ReportColumns, data>>))
                ELSE IF outcome = "not_rendered"
                  THEN Respond(req, Response("redirect", "teacher_course_detail",
                           <<Msg("error", "Error converting grades to PDF.")>>,
                           <<ReportColumns, data>>))
                ELSE Respond(req, redirect("teacher_course_detail",
                         <<Msg("error", "Error generating PDF")>>))

(***************************************************************************)
(* views.py: academic board views                                          *)
(***************************************************************************)
create_course(user, method, form) ==
    LET req == Request("create_course", user, method, 0, form)
        refused == role_required(user, "academic_board")
    IN
    IF refused # NoResult
         THEN Respond(req, refused) /\ UNCHANGED store
       ELSE IF method = "POST" /\ CourseFormIsValid(form, 0)
         THEN /\ Cardinality(courses) < MaxCourses
              /\ courses' = courses \cup
                     {[id |-> NewId(courses), code |-> form.code,
                       credits |-> form.credits, is_locked |-> form.is_locked]}
              /\ Respond(req, redirect("academic_board_course_detail",
                     <<Msg("success", "Course created successfully.")>>))
              /\ UNCHANGED <<profiles, teacher_courses, learning_outcomes,
                             program_outcomes, grades>>
       ELSE Respond(req, render("academic_board/create_course.html"))
            /\ UNCHANGED store

\* Mutant: the form is saved without check_course_edit_permission.
edit_course_without_check(user, method, course_id, form) ==
    LET req == Request("edit_course", user, method, course_id, form)
        refused == role_required(user, "academic_board")
    IN
    IF refused # NoResult
         THEN Respond(req, refused) /\ UNCHANGED store
       ELSE IF ~CourseExists(course_id)
         THEN Respond(req, Http404) /\ UNCHANGED store
       ELSE IF method = "POST" /\ CourseFormIsValid(form, course_id)
         THEN /\ courses' = {IF c.id = course_id
                               THEN [c EXCEPT !.code = form.code,
                                              !.credits = form.credits,
                                              !.is_locked = form.is_locked]
                               ELSE c : c \in courses}
              /\ Respond(req, redirect("academic_board_course_detail",
                     <<Msg("success", "Course updated successfully.")>>))
              /\ UNCHANGED <<profiles, teacher_courses, learning_outcomes,
                             program_outcomes, grades>>
       ELSE Respond(req, render("academic_board/edit_course.html"))
            /\ UNCHANGED store

edit_course(user, method, course_id, form) ==
    LET req == Request("edit_course", user, method, course_id, form)
        refused == role_required(user, "academic_board")
    IN
    IF refused # NoResult
         THEN Respond(req, refused) /\ UNCHANGED store
       ELSE IF ~CourseExists(course_id)
         THEN Respond(req, Http404) /\ UNCHANGED store
       ELSE LET course == CourseById(course_id) IN
         IF ~check_course_edit_permission(user, course)
           THEN /\ Respond(req, redirect("academic_board_course_detail",
                       <<Msg("error", "This course is locked and cannot be edited.")>>))
                /\ UNCHANGED store
         ELSE IF method = "POST" /\ CourseFormIsValid(form, course_id)
           THEN /\ courses' = {IF c.id = course_id
                                 THEN [c EXCEPT !.code = form.code,
                                                !.credits = form.credits,
                                                !.is_locked = form.is_locked]
                                 ELSE c : c \in courses}
                /\ Respond(req, redirect("academic_board_course_detail",
                       <<Msg("success", "Course updated successfully.")>>))
                /\ UNCHANGED <<profiles, teacher_courses, learning_outcomes,
                               program_outcomes, grades>>
         ELSE Respond(req, render("academic_board/edit_course.html"))
              /\ UNCHANGED store

delete_course(user, method, course_id) ==
    LET req == Request("delete_course", user, method, course_id, NoForm)
        refused == role_required(user, "academic_board")
    IN
    IF refused # NoResult
         THEN Respond(req, refused) /\ UNCHANGED store
       ELSE IF ~CourseExists(course_id)
         THEN Respond(req, Http404) /\ UNCHANGED store
       ELSE LET course == CourseById(course_id) IN
         IF ~check_course_edit_permission(user, course)
           THEN /\ Respond(req, redirect("academic_board_course_detail",
                       <<Msg("error", "This course is locked and cannot be deleted.")>>))
                /\ UNCHANGED store
         ELSE IF method = "POST"
           THEN /\ CascadeDeleteCourse(course_id)
                /\ Respond(req, redirect("academic_board_dashboard",
                       <<Msg("success", "Course deleted successfully.")>>))
                /\ UNCHANGED profiles
         ELSE Respond(req, render("academic_board/delete_course.html"))
              /\ UNCHANGED store

add_program_outcome(user, method, course_id, form) ==
    LET req == Request("add_program_outcome", user, method, course_id, form)
        refused == role_required(user, "academic_board")
    IN
    IF refused # NoResult
         THEN Respond(req, refused) /\ UNCHANGED store
       ELSE IF ~CourseExists(course_id)
         THEN Respond(req, Http404) /\ UNCHANGED store
       ELSE LET course == CourseById(course_id) IN
         IF ~check_course_edit_permission(user, course)
           THEN /\ Respond(req, redirect("academic_board_course_detail",
                       <<Msg("error", "This course is locked. You cannot add program outcomes.")>>))
                /\ UNCHANGED store
         ELSE IF method = "POST" /\ OutcomeFormIsValid(form)
           THEN IF \E o \in program_outcomes : o.course = course_id /\ o.code = form.code
                  THEN Respond(req, ServerError("IntegrityError")) /\ UNCHANGED store
                ELSE /\ program_outcomes' = program_outcomes \cup
                            {[id |-> NewId(program_outcomes), course |-> course_id,
                              code |-> form.code, description |-> form.description,
                              created_by |-> user]}
                     /\ Respond(req, redirect("academic_board_course_detail",
                            <<Msg("success", "Program outcome added successfully.")>>))
                     /\ UNCHANGED <<profiles, teacher_courses, courses,
                                    learning_outcomes, grades>>
         ELSE Respond(req, render("academic_board/add_program_outcome.html"))
              /\ UNCHANGED store

edit_program_outcome(user, method, po_id, form) ==
    LET req == Request("edit_program_outcome", user, method, po_id, form)
        refused == role_required(user, "academic_board")
    IN
    IF refused # NoResult
         THEN Respond(req, refused) /\ UNCHANGED store
       ELSE IF ~\E o \in program_outcomes : o.id = po_id
         THEN Respond(req, Http404) /\ UNCHANGED store
       ELSE LET program_outcome == CHOOSE o \in program_outcomes : o.id = po_id
                course == CourseById(program_outcome.course) IN
         IF ~check_course_edit_permission(user, course)
           THEN /\ Respond(req, redirect("academic_board_course_detail",
                       <<Msg("error", "This course is locked. You cannot edit program outcomes.")>>))
                /\ UNCHANGED store
         ELSE IF method = "POST" /\ OutcomeFormIsValid(form)
           THEN IF \E o \in program_outcomes :
                        o.id # po_id /\ o.course = course.id /\ o.code = form.code
                  THEN Respond(req, ServerError("IntegrityError")) /\ UNCHANGED store
                ELSE /\ program_outcomes' =
                            {IF o.id = po_id
                               THEN [o EXCEPT !.code = form.code,
                                              !.description = form.description]
                               ELSE o : o \in program_outcomes}
                     /\ Respond(req, redirect("academic_board_course_detail",
                            <<Msg("success", "Program outcome updated successfully.")>>))
                     /\ UNCHANGED <<profiles, teacher_courses, courses,
                                    learning_outcomes, grades>>
         ELSE Respond(req, render("academic_board/edit_program_outcome.html"))
              /\ UNCHANGED store

delete_program_outcome(user, method, po_id) ==
    LET req == Request("delete_program_outcome", user, method, po_id, NoForm)
        refused == role_required(user, "academic_board")
    IN
    IF refused # NoResult
         THEN Respond(req, refused) /\ UNCHANGED store
       ELSE IF ~\E o \in program_outcomes : o.id = po_id
         THEN Respond(req, Http404) /\ UNCHANGED store
       ELSE LET program_outcome == CHOOSE o \in program_outcomes : o.id = po_id
                course == CourseById(program_outcome.course) IN
         IF ~check_course_edit_permission(user, course)
           THEN /\ Respond(req, redirect("academic_board_course_detail",
                       <<Msg("error", "This course is locked. You cannot delete program outcomes.")>>))
                /\ UNCHANGED store
         ELSE IF method = "POST"
           THEN /\ program_outcomes' = {o \in program_outcomes : o.id # po_id}
                /\ Respond(req, redirect("academic_board_course_detail",
                       <<Msg("success", "Program outcome deleted successfully.")>>))
                /\ UNCHANGED <<profiles, teacher_courses, courses,
                               learning_outcomes, grades>>
         ELSE Respond(req, render("academic_board/delete_program_outcome.html"))
              /\ UNCHANGED store

assign_teacher_to_course(user, method, course_id, form) ==
    LET req == Request("assign_teacher_to_course", user, method, course_id, form)
        refused == role_required(user, "academic_board")
    IN
    IF refused # NoResult
         THEN Respond(req, refused) /\ UNCHANGED store
       ELSE IF ~CourseExists(course_id)
         THEN Respond(req, Http404) /\ UNCHANGED store
       ELSE LET course == CourseById(course_id) IN
         IF ~check_course_edit_permission(user, course)
           THEN /\ Respond(req, redirect("academic_board_course_detail",
                       <<Msg("error", "This course is locked. You cannot assign teachers.")>>))
                /\ UNCHANGED store
         ELSE IF method = "POST" /\ AssignFormIsValid(form)
           THEN /\ teacher_courses' =
                       [teacher_courses EXCEPT ![form.teacher] = @ \cup {course_id}]
                /\ Respond(req, redirect("academic_board_course_detail",
                       <<Msg("success", "Teacher assigned to course.")>>))
                /\ UNCHANGED <<profiles, courses, learning_outcomes,
                               program_outcomes, grades>>
         ELSE Respond(req, render("academic_board/assign_teacher.html"))
              /\ UNCHANGED store

(***************************************************************************)
(* management/commands/create_sample_users.py and the admin site           *)
(***************************************************************************)
\* Command.handle: three blocks, each skipped when the username exists.
\* Student.student_id is unique: Student.objects.create raises IntegrityError
\* when 'STU001' is taken, after the User row was written.
create_sample_users ==
    /\ users' = users \cup {"board1", "teacher1", "student1"}
    /\ academic_board_profile' =
           IF "board1" \in users THEN academic_board_profile
           ELSE academic_board_profile \cup {"board1"}
    /\ teacher_profile' =
           IF "teacher1" \in users THEN teacher_profile
           ELSE teacher_profile \cup {"teacher1"}
    /\ student_profile' =
           IF "student1" \in users \/ \E s \in student_profile : s.student_id = "STU001"
             THEN student_profile
           ELSE student_profile \cup {[user |-> "student1", student_id |-> "STU001"]}
    /\ UNCHANGED <<teacher_courses, courses, learning_outcomes, program_outcomes,
                   grades, last>>

\* The admin site (admin.py registers Teacher, Student and AcademicBoard; the
\* User rows are django.contrib.auth's).  Each profile table has a OneToOne to
\* User: a user has at most one row of each table, and nothing relates the
\* three tables to each other.
admin_add_user(user) ==
    /\ user \notin users
    /\ Cardinality(users) < MaxUsers
    /\ users' = users \cup {user}
    /\ UNCHANGED <<teacher_profile, student_profile, academic_board_profile,
                   teacher_courses, courses, learning_outcomes, program_outcomes,
                   grades, last>>

admin_add_teacher(user) ==
    /\ user \in users
    /\ user \notin teacher_profile
    /\ teacher_profile' = teacher_profile \cup {user}
    /\ UNCHANGED <<users, student_profile, academic_board_profile,
                   teacher_courses, courses, learning_outcomes, program_outcomes,
                   grades, last>>

admin_add_student(user, student_id) ==
    /\ user \in users
    /\ \A s \in student_profile : s.user # user /\ s.student_id # student_id
    /\ student_profile' = student_profile \cup {[user |-> user, student_id |-> student_id]}
    /\ UNCHANGED <<users, teacher_profile, academic_board_profile,
                   teacher_courses, courses, learning_outcomes, program_outcomes,
                   grades, last>>

admin_add_academic_board(user) ==
    /\ user \in users
    /\ user \notin academic_board_profile
    /\ academic_board_profile' = academic_board_profile \cup {user}
    /\ UNCHANGED <<users, teacher_profile, student_profile,
                   teacher_courses, courses, learning_outcomes, program_outcomes,
                   grades, last>>

(***************************************************************************)
(* The uploads the model draws                                             *)
(***************************************************************************)
IdCells == {"STU001", " STU002 ", "STU999"}
GradeCells == {"A", "b", "Z"}
PercentageCells == {NaN, "abc", "50", "1000"}
\* The cells of a column headed "Percent": the ends of 0..100 and a value on
\* either side of it.
PercentCells == {"0", "100", "150", "-5"}

CellsOf(name) ==
    CASE strip_lower(name) = "student id" -> IdCells
      [] strip_lower(name) = "grade" -> GradeCells
      [] strip_lower(name) = "percentage" -> PercentageCells
      [] strip_lower(name) = "percent" -> PercentCells
      [] strip_lower(name) = "grade percentage" -> {"50"}
      [] strip_lower(name) = "student id grade" -> {"STU001"}
      [] OTHER -> {"x"}

\* The rows of a sheet with the header h: one cell per column.
RowsOf(h) == {row \in [1..Len(h) -> UNION {CellsOf(h[i]) : i \in 1..Len(h)}] :
                 \A i \in 1..Len(h) : row[i] \in CellsOf(h[i])}

SeqsUpTo(S, n) == UNION {[1..k -> S] : k \in 0..n}

SheetsOf(h, n) ==
    {[readable |-> TRUE, columns |-> h, rows |-> rows] : rows \in SeqsUpTo(RowsOf(h), n)}

Unreadable == [readable |-> FALSE, columns |-> <<>>, rows |-> <<>>]

Headers == {<<"Student ID", "Grade">>,
            <<" student id ", "GRADE", "Percentage">>,
            <<"Student ID", "Name">>,
            <<"Name", "Grade">>}

AllSheets == UNION {SheetsOf(h, MaxRows) : h \in Headers} \cup {Unreadable}

UploadForms(sheets, semesters) ==
    [excel_file : {Some(x) : x \in sheets} \cup {None}, course : CourseIds,
     semester : semesters, academic_year : AcademicYears]

(***************************************************************************)
(* Requests in flight.  The server runs several workers; each takes a      *)
(* request and runs its view statement by statement, and the store is      *)
(* shared.  The views run under no lock and re-read nothing before they    *)
(* write, so a view is cut where another worker's write can fall: after    *)
(* its permission check, and, in the row loop, between the lookup of       *)
(* update_or_create and its write.  A request the view refuses writes      *)
(* nothing and is taken as one step (the url_ actions below).              *)
(***************************************************************************)
Workers == {1, 2}

\* pc: "idle"; "checked" (add_learning_outcome passed its check and validated
\* its form); "row" (process_excel_grades is at the head of the loop, index is
\* the 1-based row to visit); "write" (the lookup of that row found the Grade
\* of id found[1], or none); "done" (the response is ready).
NoWork == [pc |-> "idle", view |-> "", user |-> "", target |-> 0, form |-> NoForm,
           index |-> 0, grades_created |-> 0, errors |-> <<>>, found |-> None,
           status |-> "", result |-> NoResult]

\* add_learning_outcome up to form.is_valid(): the decorators, the course
\* lookup, the permission check (is_locked is read here) and the form.
begin_add_learning_outcome(w, user, course_id, form) ==
    /\ in_flight[w].pc = "idle"
    /\ role_required(user, "teacher") = NoResult
    /\ CourseExists(course_id)
    /\ check_learning_outcome_permission(user, CourseById(course_id))
    /\ OutcomeFormIsValid(form)
    /\ in_flight' = [in_flight EXCEPT ![w] =
           [NoWork EXCEPT !.pc = "checked", !.view = "add_learning_outcome",
                          !.user = user, !.target = course_id, !.form = form]]
    /\ UNCHANGED <<store, last>>

\* learning_outcome.save() and the redirect: the row is inserted for the
\* course object loaded at the start; is_locked is not read again.
save_learning_outcome(w) ==
    LET work == in_flight[w] IN
    /\ work.pc = "checked"
    /\ work.view = "add_learning_outcome"
    /\ IF \/ ~CourseExists(work.target)
          \/ \E lo \in learning_outcomes :
                 lo.course = work.target /\ lo.code = work.form.code
         THEN /\ in_flight' = [in_flight EXCEPT ![w] =
                      [work EXCEPT !.pc = "done", !.status = "server_error"]]
              /\ UNCHANGED <<store, last>>
       ELSE /\ learning_outcomes' = learning_outcomes \cup
                   {[id |-> NewId(learning_outcomes), course |-> work.target,
                     code |-> work.form.code, description |-> work.form.description,
                     created_by |-> work.user]}
            /\ in_flight' = [in_flight EXCEPT ![w] =
                   [work EXCEPT !.pc = "done", !.status = "redirect"]]
            /\ UNCHANGED <<profiles, teacher_courses, courses, program_outcomes,
                           grades, last>>

\* df.columns = df.columns.str.strip().str.lower() and the column mapping
WorkColumns(work) ==
    [i \in 1..Len(work.form.excel_file[1].columns) |->
         strip_lower(work.form.excel_file[1].columns[i])]

WorkRows(work) == work.form.excel_file[1].rows

\* upload_grades up to the head of the row loop: the decorators, the course
\* lookup, the permission check (is_locked is read here), the form, the file
\* and its required columns.
begin_upload_grades(w, user, course_id, form) ==
    /\ in_flight[w].pc = "idle"
    /\ role_required(user, "teacher") = NoResult
    /\ CourseExists(course_id)
    /\ check_grade_permission(user, CourseById(course_id))
    /\ GradeUploadFormIsValid(form, user)
    /\ form.excel_file[1].readable
    /\ LET work == [NoWork EXCEPT !.pc = "row", !.view = "upload_grades",
                                  !.user = user, !.target = course_id,
                                  !.form = form, !.index = 1]
           found == DetectColumns(WorkColumns(work), 1, NoCols)
       IN  /\ found.student_id_col # None
           /\ found.grade_col # None
           /\ in_flight' = [in_flight EXCEPT ![w] = work]
    /\ UNCHANGED <<store, last>>

\* What the body of the loop does with the row at hand on an empty Grade
\* table: a row error, or the one Grade the row asks update_or_create for.
RowIntent(work) ==
    ProcessRow([grades |-> {}, grades_created |-> 0, errors |-> <<>>],
               WorkColumns(work), DetectColumns(WorkColumns(work), 1, NoCols),
               WorkRows(work)[work.index], work.index - 1, [id |-> work.target],
               work.form.semester, work.form.academic_year, work.user)

\* The body of the loop up to the SELECT of update_or_create: a row that is
\* refused is recorded and the loop goes on; otherwise the Grade of the key
\* is looked up.
lookup_row(w) ==
    LET work == in_flight[w] IN
    /\ work.pc = "row"
    /\ work.index <= Len(WorkRows(work))
    /\ \E intent \in {RowIntent(work)} :
         IF intent.errors # <<>>
           THEN in_flight' = [in_flight EXCEPT ![w] =
                    [work EXCEPT !.errors = @ \o intent.errors, !.index = @ + 1]]
         ELSE LET r == CHOOSE g \in intent.grades : TRUE
                  existing == {g \in grades : GradeKey(g) = GradeKey(r)}
              IN  in_flight' = [in_flight EXCEPT ![w] =
                      [work EXCEPT !.pc = "write",
                                   !.found = IF existing = {} THEN None
                                             ELSE Some((CHOOSE g \in existing : TRUE).id)]]
    /\ UNCHANGED <<store, last>>

\* The outcomes of the write of update_or_create.  The Grade was found: it is
\* updated.  It was not found and is still absent: it is inserted.  It was
\* not found and another request inserted the key since: the INSERT breaks
\* unique_together, and get_or_create either reads the row again and the
\* defaults are written to it ("get"), or, when the row is not visible to the
\* transaction, re-raises the IntegrityError.
WriteOutcomes(work, r) ==
    IF work.found = None /\ \E g \in grades : GradeKey(g) = GradeKey(r)
      THEN {"get", "IntegrityError"}
    ELSE {"get"}

\* Mutant: no unique_together; a key that was not found is inserted.
write_row_no_constraint(w) ==
    LET work == in_flight[w] IN
    /\ work.pc = "write"
    /\ \E intent \in {RowIntent(work)} :
       \E r \in intent.grades :
       \E u \in {IF work.found = None
                   THEN update_or_create_always_create(grades, r.student, r.course,
                            r.semester, r.academic_year, r.grade, r.percentage,
                            r.created_by)
                 ELSE update_or_create(grades, r.student, r.course, r.semester,
                            r.academic_year, r.grade, r.percentage, r.created_by)} :
         IF u.raised # ""
           THEN /\ in_flight' = [in_flight EXCEPT ![w] =
                        [work EXCEPT !.pc = "row", !.index = @ + 1, !.found = None,
                                     !.errors = Append(@,
                             RowError("exception", "", "", work.index + 1, u.raised))]]
                /\ UNCHANGED <<store, last>>
         ELSE /\ grades' = u.grades
              /\ in_flight' = [in_flight EXCEPT ![w] =
                     [work EXCEPT !.pc = "row", !.index = @ + 1, !.found = None,
                                  !.grades_created = @ + (IF u.created THEN 1 ELSE 0)]]
              /\ UNCHANGED <<profiles, teacher_courses, courses, learning_outcomes,
                             program_outcomes, last>>

\* The write of update_or_create, `if created`, and the except clause of the
\* row.  is_locked is not read.
write_row(w) ==
    LET work == in_flight[w] IN
    /\ work.pc = "write"
    /\ \E intent \in {RowIntent(work)} :
       \E r \in intent.grades :
       \E outcome \in WriteOutcomes(work, r) :
       \E u \in {update_or_create(grades, r.student, r.course, r.semester,
                                  r.academic_year, r.grade, r.percentage,
                                  r.created_by)} :
         IF outcome = "IntegrityError" \/ u.raised # ""
           THEN /\ in_flight' = [in_flight EXCEPT ![w] =
                        [work EXCEPT !.pc = "row", !.index = @ + 1, !.found = None,
                                     !.errors = Append(@,
                             RowError("exception", "", "", work.index + 1,
                                      IF outcome = "IntegrityError" THEN outcome
                                      ELSE u.raised))]]
                /\ UNCHANGED <<store, last>>
         ELSE /\ grades' = u.grades
              /\ in_flight' = [in_flight EXCEPT ![w] =
                     [work EXCEPT !.pc = "row", !.index = @ + 1, !.found = None,
                                  !.grades_created = @ + (IF u.created THEN 1 ELSE 0)]]
              /\ UNCHANGED <<profiles, teacher_courses, courses, learning_outcomes,
                             program_outcomes, last>>

\* After the last row: the message, the return of process_excel_grades and
\* the redirect of the view.
finish_upload(w) ==
    LET work == in_flight[w] IN
    /\ work.pc = "row"
    /\ work.index > Len(WorkRows(work))
    /\ in_flight' = [in_flight EXCEPT ![w] =
           [work EXCEPT !.pc = "done", !.status = "redirect",
                        !.result = <<TRUE,
                                     Message("Successfully created/updated",
                                             work.grades_created, Len(work.errors)),
                                     work.errors>>]]
    /\ UNCHANGED <<store, last>>

\* The response is sent; the worker takes the next request.
respond_in_flight(w) ==
    /\ in_flight[w].pc = "done"
    /\ in_flight' = [in_flight EXCEPT ![w] = NoWork]
    /\ UNCHANGED <<store, last>>

(***************************************************************************)
(* The application: the store starts empty; the sample users are created   *)
(* by the management command; every request is one of the views of urls.py *)
(***************************************************************************)
OutcomeIds == 1..(MaxCourses * Cardinality(OutcomeCodes))

Init ==
    /\ users = {}
    /\ teacher_profile = {}
    /\ student_profile = {}
    /\ academic_board_profile = {}
    /\ teacher_courses = [u \in UserNames |-> {}]
    /\ courses = {}
    /\ learning_outcomes = {}
    /\ program_outcomes = {}
    /\ grades = {}
    /\ last = NoRequest
    /\ in_flight = [w \in Workers |-> NoWork]

\* The response is sent; the next request can be taken.
Deliver ==
    /\ last # NoRequest
    /\ last' = NoRequest
    /\ UNCHANGED <<store, in_flight>>

\* request.user: a logged-in user or the anonymous user
Requesters == users \cup {Anonymous}

MainSheets == SheetsOf(<<"Student ID", "Grade">>, 1) \cup SheetsOf(<<"Name", "Grade">>, 0)
MainUploadForms == UploadForms(MainSheets, {""})

\* Single-request, synchronous processing: a request is taken when the
\* response to the one before has been sent.
Idle == last = NoRequest

\* manage.py create_sample_users
run_create_sample_users == Idle /\ UNCHANGED in_flight /\ create_sample_users

\* urls.py: one action per mutating route
url_add_learning_outcome ==
    /\ Idle
    /\ UNCHANGED in_flight
    /\ \E user \in Requesters, method \in Methods, course_id \in CourseIds,
          form \in OutcomeForms :
           add_learning_outcome(user, method, course_id, form)

url_edit_learning_outcome ==
    /\ Idle
    /\ UNCHANGED in_flight
    /\ \E user \in Requesters, method \in Methods, lo_id \in OutcomeIds,
          form \in OutcomeForms :
           edit_learning_outcome(user, method, lo_id, form)

url_delete_learning_outcome ==
    /\ Idle
    /\ UNCHANGED in_flight
    /\ \E user \in Requesters, method \in Methods, lo_id \in OutcomeIds :
           delete_learning_outcome(user, method, lo_id)

url_upload_grades ==
    /\ Idle
    /\ UNCHANGED in_flight
    /\ \E user \in Requesters, method \in Methods, course_id \in CourseIds,
          form \in MainUploadForms :
           upload_grades(user, method, course_id, form)

url_convert_grades_to_pdf ==
    /\ Idle
    /\ UNCHANGED in_flight
    /\ \E user \in Requesters, method \in Methods, course_id \in CourseIds :
           convert_grades_to_pdf(user, method, course_id)

url_create_course ==
    /\ Idle
    /\ UNCHANGED in_flight
    /\ \E user \in Requesters, method \in Methods, form \in CourseForms :
           create_course(user, method, form)

url_edit_course ==
    /\ Idle
    /\ UNCHANGED in_flight
    /\ \E user \in Requesters, method \in Methods, course_id \in CourseIds,
          form \in CourseForms :
           edit_course(user, method, course_id, form)

url_delete_course ==
    /\ Idle
    /\ UNCHANGED in_flight
    /\ \E user \in Requesters, method \in Methods, course_id \in CourseIds :
           delete_course(user, method, course_id)

url_add_program_outcome ==
    /\ Idle
    /\ UNCHANGED in_flight
    /\ \E user \in Requesters, method \in Methods, course_id \in CourseIds,
          form \in OutcomeForms :
           add_program_outcome(user, method, course_id, form)

url_edit_program_outcome ==
    /\ Idle
    /\ UNCHANGED in_flight
    /\ \E user \in Requesters, method \in Methods, po_id \in OutcomeIds,
          form \in OutcomeForms :
           edit_program_outcome(user, method, po_id, form)

url_delete_program_outcome ==
    /\ Idle
    /\ UNCHANGED in_flight
    /\ \E user \in Requesters, method \in Methods, po_id \in OutcomeIds :
           delete_program_outcome(user, method, po_id)

url_assign_teacher_to_course ==
    /\ Idle
    /\ UNCHANGED in_flight
    /\ \E user \in Requesters, method \in Methods, course_id \in CourseIds,
          form \in AssignForms :
           assign_teacher_to_course(user, method, course_id, form)

Next ==
    \/ run_create_sample_users
    \/ url_add_learning_outcome
    \/ url_edit_learning_outcome
    \/ url_delete_learning_outcome
    \/ url_upload_grades
    \/ url_convert_grades_to_pdf
    \/ url_create_course
    \/ url_edit_course
    \/ url_delete_course
    \/ url_add_program_outcome
    \/ url_edit_program_outcome
    \/ url_delete_program_outcome
    \/ url_assign_teacher_to_course
    \/ Deliver

Spec == Init /\ [][Next]_vars

(***************************************************************************)
(* The role resolver on every profile layout the command and the admin     *)
(* site produce.                                                           *)
(***************************************************************************)
run_admin_add_user == Idle /\ UNCHANGED in_flight /\ \E user \in UserNames : admin_add_user(user)
run_admin_add_teacher == Idle /\ UNCHANGED in_flight /\ \E user \in UserNames : admin_add_teacher(user)
run_admin_add_student ==
    Idle /\ UNCHANGED in_flight /\ \E user \in UserNames, student_id \in StudentIds :
                admin_add_student(user, student_id)
run_admin_add_academic_board ==
    Idle /\ UNCHANGED in_flight /\ \E user \in UserNames : admin_add_academic_board(user)

run_create_sample_users_bounded ==
    /\ Cardinality(users \cup {"board1", "teacher1", "student1"}) <= MaxUsers
    /\ run_create_sample_users

url_dashboard_redirect ==
    Idle /\ UNCHANGED in_flight /\ \E user \in Requesters : dashboard_redirect(user)

NextRoles ==
    \/ run_create_sample_users_bounded
    \/ run_admin_add_user
    \/ run_admin_add_teacher
    \/ run_admin_add_student
    \/ run_admin_add_academic_board
    \/ url_dashboard_redirect
    \/ Deliver

SpecRoles == Init /\ [][NextRoles]_vars

(***************************************************************************)
(* Grade ingestion: the store after create_sample_users, after the admin   *)
(* site added a second teacher and a second student, and after the board   *)
(* created CS101 and assigned both teachers to it.  The teachers upload    *)
(* every sheet of AllSheets, in any order, any number of times.            *)
(***************************************************************************)
InitIngest ==
    /\ users = UserNames
    /\ teacher_profile = {"teacher1", "teacher2"}
    /\ student_profile = {[user |-> "student1", student_id |-> "STU001"],
                          [user |-> "student2", student_id |-> "STU002"]}
    /\ academic_board_profile = {"board1"}
    /\ teacher_courses = [u \in UserNames |->
                              IF u \in {"teacher1", "teacher2"} THEN {1} ELSE {}]
    /\ courses = {[id |-> 1, code |-> "CS101", credits |-> 3, is_locked |-> FALSE]}
    /\ learning_outcomes = {}
    /\ program_outcomes = {}
    /\ grades = {}
    /\ last = NoRequest
    /\ in_flight = [w \in Workers |-> NoWork]

IngestUploadForms ==
    [excel_file : {Some(x) : x \in AllSheets}, course : {1},
     semester : {""}, academic_year : AcademicYears]

url_upload_grades_ingest ==
    /\ Idle
    /\ UNCHANGED in_flight
    /\ \E user \in teacher_profile, form \in IngestUploadForms :
           upload_grades(user, "POST", 1, form)

NextIngest ==
    \/ url_upload_grades_ingest
    \/ Deliver

SpecIngest == InitIngest /\ [][NextIngest]_vars

(***************************************************************************)
(* Percentages and reports: on the store of InitIngest the teachers upload *)
(* one-row sheets with a "Percent" column and anyone asks for the report.  *)
(***************************************************************************)
ReportSheets == SheetsOf(<<"Student ID", "Grade", "Percent">>, 1)

ReportUploadForms ==
    [excel_file : {Some(x) : x \in ReportSheets}, course : {1},
     semester : {""}, academic_year : AcademicYears]

url_upload_grades_report ==
    /\ Idle
    /\ UNCHANGED in_flight
    /\ \E user \in teacher_profile, form \in ReportUploadForms :
           upload_grades(user, "POST", 1, form)

NextReport ==
    \/ url_upload_grades_report
    \/ url_convert_grades_to_pdf
    \/ Deliver

SpecReport == InitIngest /\ [][NextReport]_vars

(***************************************************************************)
(* The lock against requests in flight: on the store of InitIngest a       *)
(* worker runs teacher1's add_learning_outcome and upload_grades step by    *)
(* step while the board edits CS101, locking it or not.                    *)
(***************************************************************************)
LockSheets ==
    {[readable |-> TRUE, columns |-> <<"Student ID", "Grade">>, rows |-> <<row>>] :
         row \in {<<"STU001", "A">>, <<"STU001", "b">>}}

LockUploadForms ==
    [excel_file : {Some(x) : x \in LockSheets}, course : {1},
     semester : {""}, academic_year : AcademicYears]

LockCourseForms == [code : {"CS101"}, credits : {3}, is_locked : BOOLEAN]

take_add_learning_outcome ==
    \E form \in OutcomeForms : begin_add_learning_outcome(1, "teacher1", 1, form)

take_upload_grades ==
    \E form \in LockUploadForms : begin_upload_grades(1, "teacher1", 1, form)

step_save_learning_outcome == \E w \in Workers : save_learning_outcome(w)
step_lookup_row == \E w \in Workers : lookup_row(w)
step_write_row == \E w \in Workers : write_row(w)
step_finish_upload == \E w \in Workers : finish_upload(w)
step_respond == \E w \in Workers : respond_in_flight(w)

url_edit_course_board ==
    /\ Idle
    /\ UNCHANGED in_flight
    /\ \E form \in LockCourseForms : edit_course("board1", "POST", 1, form)

NextLock ==
    \/ take_add_learning_outcome
    \/ step_save_learning_outcome
    \/ take_upload_grades
    \/ step_lookup_row
    \/ step_write_row
    \/ step_finish_upload
    \/ step_respond
    \/ url_edit_course_board
    \/ Deliver

SpecLock == InitIngest /\ [][NextLock]_vars

(***************************************************************************)
(* Concurrent ingestion: on the store of InitIngest two workers run the    *)
(* uploads of teacher1 and teacher2 for CS101 at the same time, row step   *)
(* by row step, on sheets whose rows share students.                       *)
(***************************************************************************)
ConcurrentRows ==
    {<<"STU001", "A">>, <<"STU001", "b">>, <<" STU002 ", "A">>, <<"STU999", "A">>}

ConcurrentSheets ==
    {[readable |-> TRUE, columns |-> <<"Student ID", "Grade">>, rows |-> rows] :
         rows \in SeqsUpTo(ConcurrentRows, MaxRows)}

ConcurrentUploadForms ==
    [excel_file : {Some(x) : x \in ConcurrentSheets}, course : {1},
     semester : {""}, academic_year : AcademicYears]

\* request.user of the request a worker takes
WorkerUser(w) == IF w = 1 THEN "teacher1" ELSE "teacher2"

take_upload_grades_concurrent ==
    \E w \in Workers, form \in ConcurrentUploadForms :
        begin_upload_grades(w, WorkerUser(w), 1, form)

NextConcurrent ==
    \/ take_upload_grades_concurrent
    \/ step_lookup_row
    \/ step_write_row
    \/ step_finish_upload
    \/ step_respond

SpecConcurrent == InitIngest /\ [][NextConcurrent]_vars

(***************************************************************************)
(* Header sets: on the store of InitIngest teacher1 uploads one-row sheets *)
(* whose headers are made of names that meet one or several of the rules   *)
(* of the column mapping, in every order.                                  *)
(***************************************************************************)
MaxCols == 3

HeaderNames == {"Student ID", "Grade", "Grade Percentage", "Student ID Grade", "Percent"}

\* The cell of the one data row under each name: the column a value was read
\* from shows in the value.
HeaderCell(name) ==
    CASE name = "Student ID" -> "STU001"
      [] name = "Grade" -> "A"
      [] name = "Grade Percentage" -> "50"
      [] name = "Student ID Grade" -> " STU002 "
      [] name = "Percent" -> "100"

\* Headers of distinct names
HeaderSets ==
    {h \in UNION {[1..k -> HeaderNames] : k \in 1..MaxCols} :
         \A i, j \in 1..Len(h) : h[i] = h[j] => i = j}

HeaderSheets ==
    {[readable |-> TRUE, columns |-> h,
      rows |-> <<[i \in 1..Len(h) |-> HeaderCell(h[i])]>>] : h \in HeaderSets}

HeaderUploadForms ==
    [excel_file : {Some(x) : x \in HeaderSheets}, course : {1},
     semester : {""}, academic_year : AcademicYears]

url_upload_grades_headers ==
    /\ Idle
    /\ UNCHANGED in_flight
    /\ \E form \in HeaderUploadForms : upload_grades("teacher1", "POST", 1, form)

NextHeaders ==
    \/ url_upload_grades_headers
    \/ Deliver

SpecHeaders == InitIngest /\ [][NextHeaders]_vars

(***************************************************************************)
(* The course of an upload: the users of InitIngest and three courses,     *)
(* CS101 (unlocked, both teachers), CS102 (locked, teacher1) and CS103     *)
(* (unlocked, teacher2).  The teachers request upload-grades for every     *)
(* course id of the URL, existing or not, with every course in the form.   *)
(***************************************************************************)
InitBinding ==
    /\ users = UserNames
    /\ teacher_profile = {"teacher1", "teacher2"}
    /\ student_profile = {[user |-> "student1", student_id |-> "STU001"],
                          [user |-> "student2", student_id |-> "STU002"]}
    /\ academic_board_profile = {"board1"}
    /\ teacher_courses = [u \in UserNames |->
                              CASE u = "teacher1" -> {1, 2}
                                [] u = "teacher2" -> {1, 3}
                                [] OTHER -> {}]
    /\ courses = {[id |-> 1, code |-> "CS101", credits |-> 3, is_locked |-> FALSE],
                  [id |-> 2, code |-> "CS102", credits |-> 3, is_locked |-> TRUE],
                  [id |-> 3, code |-> "CS103", credits |-> 3, is_locked |-> FALSE]}
    /\ learning_outcomes = {}
    /\ program_outcomes = {}
    /\ grades = {}
    /\ last = NoRequest
    /\ in_flight = [w \in Workers |-> NoWork]

\* course_id of the URL: the three courses and an id of no course
BindingUrlCourses == {1, 2, 3, 4}

\* The choices of the course field: a valid choice is narrowed to the
\* teacher's courses by the form.
BindingFormCourses == {1, 2, 3}

BindingSheets ==
    {[readable |-> TRUE, columns |-> <<"Student ID", "Grade">>, rows |-> <<row>>] :
         row \in {<<"STU001", "A">>, <<"STU001", "b">>, <<" STU002 ", "A">>}}

BindingUploadForms ==
    [excel_file : {Some(x) : x \in BindingSheets}, course : BindingFormCourses,
     semester : {""}, academic_year : AcademicYears]

url_upload_grades_binding ==
    /\ Idle
    /\ UNCHANGED in_flight
    /\ \E user \in teacher_profile, method \in Methods,
          course_id \in BindingUrlCourses, form \in BindingUploadForms :
           upload_grades(user, method, course_id, form)

NextBinding ==
    \/ url_upload_grades_binding
    \/ Deliver

SpecBinding == InitBinding /\ [][NextBinding]_vars

(***************************************************************************)
(* Properties                                                              *)
(***************************************************************************)
\* What belongs to the course of id cid.
LearningOutcomesOf(cid, los) == {o \in los : o.course = cid}
ProgramOutcomesOf(cid, pos) == {o \in pos : o.course = cid}
GradesOf(cid, gs) == {g \in gs : g.course = cid}
TeachersOf(cid, tc) == {u \in UserNames : cid \in tc[u]}

MutatingViews ==
    {"add_learning_outcome", "edit_learning_outcome", "delete_learning_outcome",
     "upload_grades", "edit_course", "delete_course", "add_program_outcome",
     "edit_program_outcome", "delete_program_outcome", "assign_teacher_to_course"}

TeacherViews ==
    {"add_learning_outcome", "edit_learning_outcome", "delete_learning_outcome",
     "upload_grades"}

ProgramOutcomeViews ==
    {"add_program_outcome", "edit_program_outcome", "delete_program_outcome"}

\* The course a request of `last` is aimed at: the course of the URL, or the
\* course of the outcome of the URL (0 when there is none).
TargetCourse(req, los, pos) ==
    IF req.view \in {"edit_learning_outcome", "delete_learning_outcome"}
      THEN IF \E o \in los : o.id = req.target
             THEN (CHOOSE o \in los : o.id = req.target).course ELSE 0
    ELSE IF req.view \in {"edit_program_outcome", "delete_program_outcome"}
      THEN IF \E o \in pos : o.id = req.target
             THEN (CHOOSE o \in pos : o.id = req.target).course ELSE 0
    ELSE req.target

\* C1: Locked-course freeze.  Every step of the application (every request
\* to a view, by any principal, GET or POST) leaves a course that is locked
\* before the step as it is: its fields, its learning outcomes, its program
\* outcomes, its grades and its teacher set.
C1_LockedCourseFreeze ==
    [][\A c \in courses :
          c.is_locked =>
            /\ c \in courses'
            /\ LearningOutcomesOf(c.id, learning_outcomes')
                 = LearningOutcomesOf(c.id, learning_outcomes)
            /\ ProgramOutcomesOf(c.id, program_outcomes')
                 = ProgramOutcomesOf(c.id, program_outcomes)
            /\ GradesOf(c.id, grades') = GradesOf(c.id, grades)
            /\ TeachersOf(c.id, teacher_courses') = TeachersOf(c.id, teacher_courses)
      ]_vars

\* A locked course that has a learning outcome, a program outcome, a grade
\* and a teacher, and a POST to a mutating view aimed at it, by a requester
\* of the view's role (the course's own teacher, or a board member), that was
\* answered by a redirect with an error message.
C1_Witness ==
    \E c \in courses :
        /\ c.is_locked
        /\ LearningOutcomesOf(c.id, learning_outcomes) # {}
        /\ ProgramOutcomesOf(c.id, program_outcomes) # {}
        /\ GradesOf(c.id, grades) # {}
        /\ TeachersOf(c.id, teacher_courses) # {}
        /\ last.view \in MutatingViews
        /\ last.method = "POST"
        /\ TargetCourse(last, learning_outcomes, program_outcomes) = c.id
        /\ \/ /\ last.view \in TeacherViews
              /\ get_user_role(last.user) = "teacher"
              /\ c.id \in teacher_courses[last.user]
           \/ /\ last.view \in MutatingViews \ TeacherViews
              /\ get_user_role(last.user) = "academic_board"
        /\ last.status = "redirect"
        /\ Len(last.messages) = 1
        /\ last.messages[1].level = "error"

IsErrorRedirect(resp, to) ==
    /\ resp.status = "redirect"
    /\ resp.to = to
    /\ Len(resp.messages) = 1
    /\ resp.messages[1].level = "error"

\* C2: check_course_edit_permission(user, course) is true if and only if the
\* user's resolved role is academic_board and the course is not locked, for
\* every principal and every course, before and after every step; and every
\* program-outcome view (add, edit, delete) that a board member enters on an
\* existing course is gated by it: when it is false the request is answered
\* by an error redirect and no program outcome changes, and when it is true
\* the view goes on.  The operator reads the state and assigns nothing.
C2_CourseEditPermission ==
    [][/\ \A u \in Principals, c \in courses :
              check_course_edit_permission(u, c)
                <=> (get_user_role(u) = "academic_board" /\ ~c.is_locked)
       /\ \A u \in Principals, c \in courses' :
              check_course_edit_permission(u, c)'
                <=> (get_user_role(u)' = "academic_board" /\ ~c.is_locked)
       /\ (Idle /\ last'.view \in ProgramOutcomeViews) =>
            LET cid == TargetCourse(last', learning_outcomes, program_outcomes) IN
            (get_user_role(last'.user) = "academic_board" /\ CourseExists(cid)) =>
                IF check_course_edit_permission(last'.user, CourseById(cid))
                  THEN ~IsErrorRedirect(last', "academic_board_course_detail")
                  ELSE /\ IsErrorRedirect(last', "academic_board_course_detail")
                       /\ program_outcomes' = program_outcomes
       /\ (Idle /\ last'.view \in ProgramOutcomeViews
                /\ program_outcomes' # program_outcomes) =>
            LET cid == TargetCourse(last', learning_outcomes, program_outcomes) IN
            /\ CourseExists(cid)
            /\ check_course_edit_permission(last'.user, CourseById(cid))
      ]_vars

\* A board member's POST to a program-outcome view on an unlocked course went
\* through, while a teacher and a student exist for whom the permission is
\* false on the same course.
C2_Witness ==
    \E c \in courses :
        /\ ~c.is_locked
        /\ last.view = "add_program_outcome"
        /\ last.method = "POST"
        /\ last.target = c.id
        /\ get_user_role(last.user) = "academic_board"
        /\ check_course_edit_permission(last.user, c)
        /\ last.status = "redirect"
        /\ Len(last.messages) = 1
        /\ last.messages[1].level = "success"
        /\ ProgramOutcomesOf(c.id, program_outcomes) # {}
        /\ \E u \in users : get_user_role(u) = "teacher"
                              /\ ~check_course_edit_permission(u, c)

\* C3: check_learning_outcome_permission(user, course) is true if and only
\* if the user's resolved role is teacher, the course is in that teacher's
\* course set and the course is not locked; check_grade_permission has the
\* same value for every user and course.
C3_LearningOutcomeAndGradePermission ==
    \A u \in Principals, c \in courses :
        /\ check_learning_outcome_permission(u, c)
             <=> /\ get_user_role(u) = "teacher"
                 /\ c.id \in teacher_courses[u]
                 /\ ~c.is_locked
        /\ check_grade_permission(u, c) = check_learning_outcome_permission(u, c)

\* A teacher of a locked course asked to upload grades for it and was
\* refused: role and assignment hold, the lock alone makes the permission
\* false.
C3_Witness ==
    \E c \in courses :
        /\ c.is_locked
        /\ last.view = "upload_grades"
        /\ last.method = "POST"
        /\ last.target = c.id
        /\ get_user_role(last.user) = "teacher"
        /\ c.id \in teacher_courses[last.user]
        /\ ~check_grade_permission(last.user, c)
        /\ IsErrorRedirect(last, "teacher_course_detail")

\* The profile tables in the order get_user_role is said to probe them.
ProbeOrder == <<"teacher", "student", "academic_board">>

HasProfile(u, kind) ==
    CASE kind = "teacher" -> u \in teacher_profile
      [] kind = "student" -> \E s \in student_profile : s.user = u
      [] kind = "academic_board" -> u \in academic_board_profile

FirstProfile(u) ==
    LET hits == {i \in 1..Len(ProbeOrder) : HasProfile(u, ProbeOrder[i])} IN
    IF hits = {} THEN "None"
    ELSE ProbeOrder[CHOOSE i \in hits : \A j \in hits : i <= j]

DashboardOf(role) ==
    CASE role = "teacher" -> "teacher_dashboard"
      [] role = "student" -> "student_dashboard"
      [] role = "academic_board" -> "academic_board_dashboard"
      [] OTHER -> "login"

\* C4: get_user_role gives every principal exactly one value of teacher,
\* student, academic_board, None: None for a principal that is not
\* authenticated, otherwise the first profile found in the order teacher,
\* student, academic board, and None when there is no profile; and
\* dashboard_redirect sends the requester to the dashboard of that role.
C4_RoleResolution ==
    /\ \A u \in Principals :
          /\ get_user_role(u) \in {"teacher", "student", "academic_board", "None"}
          /\ get_user_role(u) = IF u \in users THEN FirstProfile(u) ELSE "None"
    /\ last.view = "dashboard_redirect" =>
          /\ last.status = "redirect"
          /\ last.to = DashboardOf(IF last.user \in users
                                     THEN FirstProfile(last.user) ELSE "None")

\* A user holding the three profiles resolved to teacher, another holding a
\* student and a board profile was sent to the student dashboard.
C4_Witness ==
    /\ \E u \in users : /\ u \in teacher_profile
                        /\ has_student_profile(u)
                        /\ u \in academic_board_profile
                        /\ get_user_role(u) = "teacher"
    /\ last.view = "dashboard_redirect"
    /\ last.user \in users
    /\ last.user \notin teacher_profile
    /\ has_student_profile(last.user)
    /\ last.user \in academic_board_profile
    /\ last.to = "student_dashboard"

(***************************************************************************)
(* Grade ingestion, read off the response: `last` holds the upload request *)
(* (requester, course, form with the sheet) and what process_excel_grades  *)
(* returned; `grades` is the table the call left.                          *)
(***************************************************************************)
UploadRan(req) == req.view = "upload_grades" /\ req.result # NoResult

SheetOf(req) == req.form.excel_file[1]

Largest(S) == CHOOSE x \in S : \A y \in S : y <= x

\* The columns of a sheet by what their trimmed, case-folded names contain.
IdColumns(sheet) ==
    {i \in 1..Len(sheet.columns) :
        /\ Contains(strip_lower(sheet.columns[i]), "student")
        /\ Contains(strip_lower(sheet.columns[i]), "id")}

GradeColumns(sheet) ==
    {i \in 1..Len(sheet.columns) : Contains(strip_lower(sheet.columns[i]), "grade")}
        \ IdColumns(sheet)

PercentageColumns(sheet) ==
    {i \in 1..Len(sheet.columns) : Contains(strip_lower(sheet.columns[i]), "percent")}
        \ (IdColumns(sheet) \cup GradeColumns(sheet))

MissingRequiredColumn(sheet) ==
    sheet.readable /\ (IdColumns(sheet) = {} \/ GradeColumns(sheet) = {})

RequiredColumnsPresent(sheet) ==
    sheet.readable /\ IdColumns(sheet) # {} /\ GradeColumns(sheet) # {}

\* What the data row i (1-based; its 0-based index is i - 1) says.
RowStudentId(sheet, i) == str_strip(sheet.rows[i][Largest(IdColumns(sheet))])

RowGrade(sheet, i) == upper(str_strip(sheet.rows[i][Largest(GradeColumns(sheet))]))

RowPercentageCell(sheet, i) ==
    IF PercentageColumns(sheet) = {} THEN NaN
    ELSE sheet.rows[i][Largest(PercentageColumns(sheet))]

RowPercentage(sheet, i) ==
    IF RowPercentageCell(sheet, i) = NaN THEN None
    ELSE float(RowPercentageCell(sheet, i))

RowStudentExists(sheet, i) ==
    \E s \in student_profile : s.student_id = RowStudentId(sheet, i)

RowStudent(sheet, i) ==
    (CHOOSE s \in student_profile : s.student_id = RowStudentId(sheet, i)).user

\* Valid on its own: existing student, grade of the enumeration, percentage
\* empty or parseable.
RowValid(sheet, i) ==
    /\ RowStudentExists(sheet, i)
    /\ RowGrade(sheet, i) \in GRADE_CHOICES
    /\ RowPercentageCell(sheet, i) = NaN \/ float(RowPercentageCell(sheet, i)) # None

\* Valid, and the percentage is one the column can hold: below 1000 in
\* absolute value.
RowStorable(sheet, i) ==
    /\ RowValid(sheet, i)
    /\ RowPercentage(sheet, i) # None =>
          /\ RowPercentage(sheet, i)[1] < 1000
          /\ RowPercentage(sheet, i)[1] > -1000

RowKey(req, i) ==
    <<RowStudent(SheetOf(req), i), req.target, req.form.semester, req.form.academic_year>>

\* The last row of the sheet that writes the key of row i.
LastWriter(sheet, i) ==
    Largest({j \in 1..Len(sheet.rows) :
                 /\ RowStorable(sheet, j)
                 /\ RowStudentId(sheet, j) = RowStudentId(sheet, i)})

KeysUnique(gs) == \A g1, g2 \in gs : GradeKey(g1) = GradeKey(g2) => g1 = g2

\* C5: Grade-key uniqueness.  Before and after every upload no two Grade
\* records have the same (student, course, semester, academic_year); a record
\* that exists before an upload is still there after it, under the same id
\* and key, so a row whose tuple exists updates that record and adds none.
C5_GradeKeyUniqueness ==
    [][/\ KeysUnique(grades)
       /\ KeysUnique(grades')
       /\ \A g \in grades :
             \E h \in grades' : h.id = g.id /\ GradeKey(h) = GradeKey(g)
       /\ \A g \in grades :
             Cardinality({h \in grades' : GradeKey(h) = GradeKey(g)}) = 1
      ]_vars

\* An upload all of whose rows hit tuples that already existed: nothing was
\* created, nothing failed, and each row's record is in the table.
C5_Witness ==
    /\ UploadRan(last)
    /\ RequiredColumnsPresent(SheetOf(last))
    /\ Len(SheetOf(last).rows) = MaxRows
    /\ Len(last.result) = 3
    /\ last.result[1]
    /\ last.result[2].count = 0
    /\ last.result[3] = <<>>
    /\ \A i \in 1..Len(SheetOf(last).rows) :
           \E g \in grades : GradeKey(g) = RowKey(last, i)
    /\ Cardinality(grades) = 2

\* C6: Last-write-wins.  After an upload, for every row that writes a tuple,
\* exactly one Grade record has that tuple, and its grade and percentage are
\* those of the last row of the sheet that writes the tuple and its
\* created_by is the uploader: whatever an earlier upload or an earlier row
\* wrote is overwritten.
C6_LastWriteWins ==
    (UploadRan(last) /\ RequiredColumnsPresent(SheetOf(last))) =>
        \A i \in 1..Len(SheetOf(last).rows) :
            RowStorable(SheetOf(last), i) =>
                LET j == LastWriter(SheetOf(last), i)
                    written == {g \in grades : GradeKey(g) = RowKey(last, i)}
                IN  /\ Cardinality(written) = 1
                    /\ \A g \in written :
                          /\ g.grade = RowGrade(SheetOf(last), j)
                          /\ g.percentage = RowPercentage(SheetOf(last), j)
                          /\ g.created_by = last.user

\* Two rows of one upload write the same tuple with different grades, the
\* tuple existed before the upload (nothing was created), and the record
\* holds the second row's grade and the uploader.
C6_Witness ==
    /\ UploadRan(last)
    /\ RequiredColumnsPresent(SheetOf(last))
    /\ Len(SheetOf(last).rows) = 2
    /\ RowStorable(SheetOf(last), 1)
    /\ RowStorable(SheetOf(last), 2)
    /\ RowStudentId(SheetOf(last), 1) = RowStudentId(SheetOf(last), 2)
    /\ RowGrade(SheetOf(last), 1) # RowGrade(SheetOf(last), 2)
    /\ RowPercentage(SheetOf(last), 1) # RowPercentage(SheetOf(last), 2)
    /\ last.result[2].count = 0
    /\ last.user = "teacher2"
    /\ \E g \in grades :
          /\ GradeKey(g) = RowKey(last, 2)
          /\ g.grade = RowGrade(SheetOf(last), 2)
          /\ g.percentage = RowPercentage(SheetOf(last), 2)
          /\ g.created_by = "teacher2"
    /\ \E g \in grades : g.created_by = "teacher1"

\* C7: Structural failure is all-or-nothing.  When the sheet has no
\* student-identifier column or no grade column, process_excel_grades returns
\* failure, reports no row, and leaves the Grade table exactly as it was.
C7_StructuralFailureAllOrNothing ==
    [][(Idle /\ UploadRan(last') /\ MissingRequiredColumn(SheetOf(last'))) =>
          /\ last'.result[1] = FALSE
          /\ \A k \in 3..Len(last'.result) : last'.result[k] = <<>>
          /\ grades' = grades
      ]_vars

\* A sheet without a student-identifier column, with MaxRows rows, was
\* uploaded over a table that holds grades; failure was returned.
C7_Witness ==
    /\ UploadRan(last)
    /\ MissingRequiredColumn(SheetOf(last))
    /\ IdColumns(SheetOf(last)) = {}
    /\ GradeColumns(SheetOf(last)) # {}
    /\ Len(SheetOf(last).rows) = MaxRows
    /\ last.result[1] = FALSE
    /\ grades # {}

\* C8: A structural failure comes back from process_excel_grades as a
\* (success, message, errors) triple, and upload_grades answers it with one
\* error message and a redirect to the teacher's course page.
C8_StructuralFailureThreePartShape ==
    (UploadRan(last) /\ MissingRequiredColumn(SheetOf(last))) =>
        /\ Len(last.result) = 3
        /\ IsErrorRedirect(last, "teacher_course_detail")

\* What an upload with the required columns must have done for row i, under
\* a given reading of "valid": the call returned success, a valid row's
\* tuple is in the table with the uploader as created_by and the values of
\* that row or of a later valid row of the same student, and a row that is
\* not valid has its error entry.
RowsIndependent(valid(_, _)) ==
    (UploadRan(last) /\ RequiredColumnsPresent(SheetOf(last))) =>
        /\ Len(last.result) = 3
        /\ last.result[1]
        /\ \A i \in 1..Len(SheetOf(last).rows) :
              IF valid(SheetOf(last), i)
                THEN \E g \in grades :
                        /\ GradeKey(g) = RowKey(last, i)
                        /\ g.created_by = last.user
                        /\ \E j \in i..Len(SheetOf(last).rows) :
                              /\ valid(SheetOf(last), j)
                              /\ RowStudentId(SheetOf(last), j) = RowStudentId(SheetOf(last), i)
                              /\ g.grade = RowGrade(SheetOf(last), j)
                              /\ g.percentage = RowPercentage(SheetOf(last), j)
                ELSE \E k \in 1..Len(last.result[3]) : last.result[3][k].row = i + 1

\* C9 (as stated): every row with an existing student, a grade of the
\* enumeration and a percentage that is empty or parseable is upserted,
\* whatever the other rows do; every row is visited; the call returns success.
C9_RowIndependence_AsStated == RowsIndependent(RowValid)

\* C9 (amended): every row with an existing student, a grade of the
\* enumeration and a percentage that is empty or parses to a number below
\* 1000 in absolute value (one the DecimalField(5, 2) column can hold) is
\* upserted, whatever the other rows do; a parseable percentage the column
\* cannot hold makes the row a row error like any other exception; every row
\* is visited and the call returns success.
C9_RowIndependence == RowsIndependent(RowStorable)

\* The first row fails while being saved (percentage 1000), the second row is
\* valid and its grade is in the table.
C9_Witness ==
    /\ UploadRan(last)
    /\ RequiredColumnsPresent(SheetOf(last))
    /\ Len(SheetOf(last).rows) = 2
    /\ RowValid(SheetOf(last), 1)
    /\ ~RowStorable(SheetOf(last), 1)
    /\ RowStorable(SheetOf(last), 2)
    /\ RowStudentId(SheetOf(last), 1) = RowStudentId(SheetOf(last), 2)
    /\ Len(last.result[3]) = 1
    /\ last.result[3][1].detail = "InvalidOperation"
    /\ \E g \in grades :
          /\ GradeKey(g) = RowKey(last, 2)
          /\ g.grade = RowGrade(SheetOf(last), 2)
          /\ g.percentage = RowPercentage(SheetOf(last), 2)

\* C10: Every row error carries the sheet position of its row, the 0-based
\* data-row index plus 2 (data row i, counted from 1, is row i + 1 of the
\* sheet); the error list is in strictly ascending row order, so it has at
\* most one entry per row, and it has one entry for each failing row.
C10_ErrorRowNumbers ==
    (UploadRan(last) /\ RequiredColumnsPresent(SheetOf(last))) =>
        LET errors == last.result[3]
            failing == {i \in 1..Len(SheetOf(last).rows) : ~RowStorable(SheetOf(last), i)}
        IN  /\ \A k \in 1..Len(errors) :
                  /\ errors[k].row - 2 \in {i - 1 : i \in failing}
                  /\ errors[k].kind \in {"not_found", "invalid_grade"} =>
                        errors[k].student_id
                            = RowStudentId(SheetOf(last), errors[k].row - 1)
            /\ \A k, l \in 1..Len(errors) : k < l => errors[k].row < errors[l].row
            /\ Len(errors) = Cardinality(failing)

\* The first row was stored and the second failed: the only entry of the
\* error list, at list position 1, is tagged row 3.
C10_Witness ==
    /\ UploadRan(last)
    /\ RequiredColumnsPresent(SheetOf(last))
    /\ Len(SheetOf(last).rows) = 2
    /\ RowStorable(SheetOf(last), 1)
    /\ ~RowStorable(SheetOf(last), 2)
    /\ Len(last.result[3]) = 1
    /\ last.result[3][1].row = 3

\* The entries of the error list of the response req for data row i.
ErrorsOfRow(req, i) == {k \in 1..Len(req.result[3]) : req.result[3][k].row = i + 1}

\* No other row of the sheet writes the tuple of row i.
OnlyRowOfStudent(sheet, i) ==
    \A j \in 1..Len(sheet.rows) :
        (j # i /\ RowStudentId(sheet, j) = RowStudentId(sheet, i)) => ~RowStorable(sheet, j)

\* C11: A data row whose trimmed student identifier matches no Student has
\* exactly one entry in the error list, of the kind 'not found', with the
\* row's number and the identifier, and the upload leaves no Grade for it.
C11_StudentNotFoundRow ==
    (UploadRan(last) /\ RequiredColumnsPresent(SheetOf(last))) =>
        \A i \in 1..Len(SheetOf(last).rows) :
            ~RowStudentExists(SheetOf(last), i) =>
                /\ Cardinality(ErrorsOfRow(last, i)) = 1
                /\ \A k \in ErrorsOfRow(last, i) :
                      /\ last.result[3][k].kind = "not_found"
                      /\ last.result[3][k].student_id = RowStudentId(SheetOf(last), i)

\* C12: Grade-value validity.  A row whose trimmed, upper-cased grade is not
\* one of the eleven values of GRADE_CHOICES has exactly one row error and
\* writes nothing (when no other row writes its tuple, the records of the
\* tuple are what they were); after every step every Grade record holds a
\* grade of the enumeration.
C12_GradeValueValidity ==
    [][/\ \A g \in grades' : g.grade \in GRADE_CHOICES
       /\ Cardinality(GRADE_CHOICES) = 11
       /\ (Idle /\ UploadRan(last') /\ RequiredColumnsPresent(SheetOf(last'))) =>
            \A i \in 1..Len(SheetOf(last').rows) :
                RowGrade(SheetOf(last'), i) \notin GRADE_CHOICES =>
                    /\ Cardinality(ErrorsOfRow(last', i)) = 1
                    /\ (RowStudentExists(SheetOf(last'), i)
                          /\ OnlyRowOfStudent(SheetOf(last'), i)) =>
                         {g \in grades' : GradeKey(g) = RowKey(last', i)}
                           = {g \in grades : GradeKey(g) = RowKey(last', i)}
      ]_vars

\* The second row carries the grade Z for a student whose grade was stored
\* before: the row is refused as an invalid grade and the stored grade is of
\* the enumeration.
C12_Witness ==
    /\ UploadRan(last)
    /\ RequiredColumnsPresent(SheetOf(last))
    /\ Len(SheetOf(last).rows) = 2
    /\ RowStorable(SheetOf(last), 1)
    /\ RowStudentExists(SheetOf(last), 2)
    /\ RowStudentId(SheetOf(last), 2) # RowStudentId(SheetOf(last), 1)
    /\ RowGrade(SheetOf(last), 2) = "Z"
    /\ Len(last.result[3]) = 1
    /\ last.result[3][1].kind = "invalid_grade"
    /\ last.result[3][1].grade = "Z"
    /\ \E g \in grades : GradeKey(g) = RowKey(last, 2) /\ g.grade \in GRADE_CHOICES
    /\ \E g \in grades : GradeKey(g) = RowKey(last, 1)

\* C13: Percentage handling.  With a percentage column, an empty cell on an
\* otherwise valid row is no error and the row's Grade has percentage null;
\* a non-empty cell that does not parse makes the row a row error that writes
\* nothing, and the other rows are processed all the same (every storable row
\* has its record, every other row its error).  Without a percentage column
\* every Grade the upload writes has percentage null.
C13_PercentageHandling ==
    [][(Idle /\ UploadRan(last') /\ RequiredColumnsPresent(SheetOf(last'))) =>
          \A sheet \in {SheetOf(last')} :
          \A i \in 1..Len(sheet.rows) :
          \A cell \in {RowPercentageCell(sheet, i)},
             student_exists \in {RowStudentExists(sheet, i)},
             storable \in {RowStorable(sheet, i)},
             errs \in {ErrorsOfRow(last', i)} :
              /\ (student_exists /\ RowGrade(sheet, i) \in GRADE_CHOICES /\ cell = NaN) =>
                    /\ errs = {}
                    /\ LastWriter(sheet, i) = i =>
                          \E g \in grades' : /\ GradeKey(g) = RowKey(last', i)
                                             /\ g.percentage = None
              /\ (cell # NaN /\ float(cell) = None) =>
                    /\ Cardinality(errs) = 1
                    /\ (student_exists /\ OnlyRowOfStudent(sheet, i)) =>
                          {g \in grades' : GradeKey(g) = RowKey(last', i)}
                            = {g \in grades : GradeKey(g) = RowKey(last', i)}
              /\ storable => \E g \in grades' : GradeKey(g) = RowKey(last', i)
              /\ ~storable => errs # {}
              /\ (PercentageColumns(sheet) = {} /\ storable) =>
                    \A g \in grades' : GradeKey(g) = RowKey(last', i) => g.percentage = None
      ]_vars

\* A sheet with a percentage column: the first row's cell is "abc" and the
\* row is a row error; the second row's cell is empty and its Grade is stored
\* with percentage null, over the record the tuple already had.
C13_Witness ==
    /\ UploadRan(last)
    /\ RequiredColumnsPresent(SheetOf(last))
    /\ PercentageColumns(SheetOf(last)) # {}
    /\ Len(SheetOf(last).rows) = 2
    /\ RowStudentExists(SheetOf(last), 1)
    /\ RowGrade(SheetOf(last), 1) \in GRADE_CHOICES
    /\ RowPercentageCell(SheetOf(last), 1) = "abc"
    /\ RowStorable(SheetOf(last), 2)
    /\ RowPercentageCell(SheetOf(last), 2) = NaN
    /\ Len(last.result[3]) = 1
    /\ last.result[3][1].row = 2
    /\ last.result[3][1].detail = "ValueError"
    /\ last.result[2].count = 0
    /\ \E g \in grades : GradeKey(g) = RowKey(last, 2) /\ g.percentage = None

\* C14: Result accounting.  The counts a successful ingest reports cover the
\* created and the updated records: together with the number of row errors
\* they add up to the number of data rows, so re-uploading k valid rows whose
\* grades exist reports k records, not 0.
C14_ResultAccounting ==
    (UploadRan(last) /\ RequiredColumnsPresent(SheetOf(last))) =>
        last.result[2].count + Len(last.result[3]) = Len(SheetOf(last).rows)

\* C15: Percentage range.  Every Grade record's percentage is null or lies
\* between 0 and 100 inclusive: a row carrying 150 or -5 never leaves a
\* Grade with that percentage.
C15_PercentageRange ==
    \A g \in grades :
        g.percentage = None \/ (0 <= g.percentage[1] /\ g.percentage[1] <= 100)

\* The rows handed to the renderer by the export request req.
ReportData(req) == req.result[2]

\* C16: Export.  For a teacher of the course, convert_grades_to_pdf on a
\* course without Grade records answers an error redirect and hands nothing
\* to the renderer; on a course with N >= 1 records, whatever is handed to the
\* renderer has the six columns Student ID, Student Name, Grade, Percentage,
\* Semester, Academic Year in that order and exactly N rows, one per Grade,
\* each with the student's identifier, the user's full name or, when that is
\* empty, the username, and the record's grade, semester and academic year.
C16_Export ==
    (/\ last.view = "convert_grades_to_pdf"
     /\ get_user_role(last.user) = "teacher"
     /\ CourseExists(last.target)
     /\ last.target \in teacher_courses[last.user]) =>
        LET gs == GradesOf(last.target, grades) IN
        IF gs = {}
          THEN /\ IsErrorRedirect(last, "teacher_course_detail")
               /\ last.result = NoResult
          ELSE /\ last.status = "file" \/ IsErrorRedirect(last, "teacher_course_detail")
               /\ last.status = "file" => last.result # NoResult
               /\ last.result # NoResult =>
                    /\ last.result[1] = <<"Student ID", "Student Name", "Grade",
                                          "Percentage", "Semester", "Academic Year">>
                    /\ Len(ReportData(last)) = Cardinality(gs)
                    /\ \A k \in 1..Len(ReportData(last)) : Len(ReportData(last)[k]) = 6
                    /\ \A g \in gs :
                          \E k \in 1..Len(ReportData(last)) :
                              LET row == ReportData(last)[k] IN
                              /\ \E s \in student_profile :
                                    s.user = g.student /\ row[1] = s.student_id
                              /\ row[2] = IF get_full_name(g.student) = ""
                                            THEN g.student
                                            ELSE get_full_name(g.student)
                              /\ row[3] = g.grade
                              /\ row[5] = g.semester
                              /\ row[6] = g.academic_year
                              /\ \A l \in 1..Len(ReportData(last)) :
                                    ReportData(last)[l][1] = row[1] => l = k

\* A report of two grades was rendered: one row names John Doe, the other
\* falls back to the username student2.
C16_Witness ==
    /\ last.view = "convert_grades_to_pdf"
    /\ last.status = "file"
    /\ Cardinality(GradesOf(last.target, grades)) = 2
    /\ Len(ReportData(last)) = 2
    /\ \E k, l \in 1..2 : /\ ReportData(last)[k][2] = "John Doe"
                          /\ ReportData(last)[l][2] = "student2"

\* C17: Single-profile invariant.  In every reachable state each user has at
\* most one of the three profile kinds.
C17_SingleProfile ==
    \A u \in users :
        Cardinality({i \in 1..Len(ProbeOrder) : HasProfile(u, ProbeOrder[i])}) <= 1

\* The views behind a role gate that write, and the role each requires.
GatedViews == MutatingViews \cup {"create_course"}

RequiredRole(view) == IF view \in TeacherViews THEN "teacher" ELSE "academic_board"

\* The gates refuse the request req, taken in the current state: the
\* requester's role is not the view's, or the view's permission predicate is
\* false for the course the request is aimed at.
Denied(req) ==
    \/ get_user_role(req.user) # RequiredRole(req.view)
    \/ /\ req.view # "create_course"
       /\ CourseExists(TargetCourse(req, learning_outcomes, program_outcomes))
       /\ LET course == CourseById(TargetCourse(req, learning_outcomes, program_outcomes)) IN
          IF req.view \in {"add_learning_outcome", "edit_learning_outcome",
                           "delete_learning_outcome"}
            THEN ~check_learning_outcome_permission(req.user, course)
          ELSE IF req.view = "upload_grades"
            THEN ~check_grade_permission(req.user, course)
          ELSE ~check_course_edit_permission(req.user, course)

\* C18: Denied requests have no effect.  When a logged-in user's request to a
\* writing view is refused by a gate (wrong role, students and users without
\* a role included; a teacher who is not assigned to the course; a permission
\* predicate that is false), the answer is a redirect with one error message
\* and every user, profile, course, outcome, grade and assignment is as it
\* was.
C18_DeniedRequestsHaveNoEffect ==
    [][(Idle /\ last'.view \in GatedViews /\ is_authenticated(last'.user)
             /\ Denied(last')) =>
          /\ last'.status = "redirect"
          /\ Len(last'.messages) = 1
          /\ last'.messages[1].level = "error"
          /\ UNCHANGED store
      ]_vars

\* A student's POST to delete an unlocked course that has outcomes and a
\* teacher was refused: the course and what belongs to it are there.
C18_Witness ==
    /\ last.view = "delete_course"
    /\ last.method = "POST"
    /\ get_user_role(last.user) = "student"
    /\ last.status = "redirect"
    /\ Len(last.messages) = 1
    /\ last.messages[1].level = "error"
    /\ \E c \in courses :
          /\ c.id = last.target
          /\ ~c.is_locked
          /\ LearningOutcomesOf(c.id, learning_outcomes) # {}
          /\ ProgramOutcomesOf(c.id, program_outcomes) # {}
          /\ TeachersOf(c.id, teacher_courses) # {}

\* C19: the lock is checked at the point of every write, also under
\* interleaving.  Once a course is locked, no step of a request that a worker
\* has in flight for it (add_learning_outcome after its check, upload_grades in
\* its row loop) changes the learning outcomes or the grades of the course.
C19_LockCheckedAtWrite ==
    [][\A w \in Workers : \A c \in courses :
          (/\ c.is_locked
           /\ in_flight[w].pc \in {"checked", "row", "write"}
           /\ in_flight[w].target = c.id
           /\ in_flight'[w] # in_flight[w]) =>
            /\ LearningOutcomesOf(c.id, learning_outcomes')
                   = LearningOutcomesOf(c.id, learning_outcomes)
            /\ GradesOf(c.id, grades') = GradesOf(c.id, grades)]_vars

\* The storable rows of the sheet a worker has in hand that write the key.
WritersOf(w, key) ==
    {i \in 1..Len(WorkRows(in_flight[w])) :
         /\ RowStorable(SheetOf(in_flight[w]), i)
         /\ RowKey(in_flight[w], i) = key}

UploadDone(w) == in_flight[w].pc = "done" /\ in_flight[w].view = "upload_grades"

\* C20: concurrent ingestions on overlapping keys.  No two Grade records ever
\* share a key.  An upload in its row loop is at a row of its sheet or just
\* past the last one, and a write it has pending is the write of a storable
\* row: the loop waits for nothing and ends after the rows of the sheet.  A
\* finished upload reports success with every row accounted for: at most one
\* error per row, exactly one for a row that is not storable, a constraint
\* violation only on a storable row, and a Grade for the key of every row
\* without an error, whatever happened to the rows before it.  When both
\* uploads are finished, a key that both sheets write has exactly one Grade,
\* and it holds the grade and the author of one of the rows that write it.
C20_ConcurrentIngestion ==
    /\ KeysUnique(grades)
    /\ \A w \in Workers :
          /\ in_flight[w].pc = "row" =>
                in_flight[w].index \in 1..(Len(WorkRows(in_flight[w])) + 1)
          /\ in_flight[w].pc = "write" =>
                /\ in_flight[w].index \in 1..Len(WorkRows(in_flight[w]))
                /\ RowStorable(SheetOf(in_flight[w]), in_flight[w].index)
          /\ UploadDone(w) =>
                /\ in_flight[w].result[1]
                /\ \A i \in 1..Len(WorkRows(in_flight[w])) :
                      LET sheet == SheetOf(in_flight[w])
                          errs == ErrorsOfRow(in_flight[w], i)
                      IN  /\ Cardinality(errs) <= 1
                          /\ ~RowStorable(sheet, i) => Cardinality(errs) = 1
                          /\ \A k \in errs :
                                in_flight[w].result[3][k].detail = "IntegrityError"
                                    => RowStorable(sheet, i)
                          /\ (RowStorable(sheet, i) /\ errs = {}) =>
                                \E g \in grades : GradeKey(g) = RowKey(in_flight[w], i)
    /\ (UploadDone(1) /\ UploadDone(2)) =>
          \A i \in 1..Len(WorkRows(in_flight[1])) :
              LET key == RowKey(in_flight[1], i) IN
              (RowStorable(SheetOf(in_flight[1]), i) /\ WritersOf(2, key) # {}) =>
                  /\ Cardinality({g \in grades : GradeKey(g) = key}) = 1
                  /\ \A g \in grades :
                        GradeKey(g) = key =>
                          \E w \in Workers : \E k \in WritersOf(w, key) :
                              /\ g.grade = RowGrade(SheetOf(in_flight[w]), k)
                              /\ g.percentage = RowPercentage(SheetOf(in_flight[w]), k)
                              /\ g.created_by = in_flight[w].user

\* Both uploads are finished; the first row of one of them hit the constraint
\* on a key the other sheet writes too and is a row error, and its second
\* row, for another student, has no error.
C20_Witness ==
    /\ UploadDone(1)
    /\ UploadDone(2)
    /\ \E w \in Workers :
          LET sheet == SheetOf(in_flight[w]) IN
          /\ Len(sheet.rows) = 2
          /\ \E k \in ErrorsOfRow(in_flight[w], 1) :
                in_flight[w].result[3][k].detail = "IntegrityError"
          /\ RowStorable(sheet, 2)
          /\ RowKey(in_flight[w], 2) # RowKey(in_flight[w], 1)
          /\ ErrorsOfRow(in_flight[w], 2) = {}
          /\ \E v \in Workers \ {w} : WritersOf(v, RowKey(in_flight[w], 1)) # {}

\* The columns of a sheet whose trimmed, case-folded name meets a rule of the
\* mapping, whatever other rule it meets.
NamedStudentId(sheet) ==
    {i \in 1..Len(sheet.columns) :
        /\ Contains(strip_lower(sheet.columns[i]), "student")
        /\ Contains(strip_lower(sheet.columns[i]), "id")}

NamedGrade(sheet) ==
    {i \in 1..Len(sheet.columns) : Contains(strip_lower(sheet.columns[i]), "grade")}

NamedPercentage(sheet) ==
    {i \in 1..Len(sheet.columns) :
        \/ Contains(strip_lower(sheet.columns[i]), "percentage")
        \/ Contains(strip_lower(sheet.columns[i]), "percent")}

\* The mapping the upload made of the header of its sheet.
MappingOf(sheet) ==
    DetectColumns([i \in 1..Len(sheet.columns) |-> strip_lower(sheet.columns[i])],
                  1, NoCols)

\* The column of role is one of the columns of `named`, and there is one
\* whenever `named` is not empty.
TakenFrom(sheet, col, named) ==
    /\ named # {} => col # None
    /\ col # None => \E i \in named : strip_lower(sheet.columns[i]) = col[1]

\* C21: Header mapping.  For every header set of an uploaded sheet, a column
\* whose normalised name contains 'student' and 'id' is the student-identifier
\* column, one whose name contains 'grade' is the grade column, one whose name
\* contains 'percentage' or 'percent' is the percentage column, also when a
\* name meets several rules or several names meet one rule (any of them may
\* be the one taken); a sheet with a student-identifier name and a grade name
\* is therefore not refused for a missing column.
C21_HeaderMapping ==
    (UploadRan(last) /\ SheetOf(last).readable) =>
        \A sheet \in {SheetOf(last)} : \A found \in {MappingOf(sheet)} :
            /\ TakenFrom(sheet, found.student_id_col, NamedStudentId(sheet))
            /\ TakenFrom(sheet, found.grade_col, NamedGrade(sheet))
            /\ TakenFrom(sheet, found.percentage_col, NamedPercentage(sheet))
            /\ (NamedStudentId(sheet) # {} /\ NamedGrade(sheet) # {}) =>
                  Len(last.result) = 3 /\ last.result[1]

\* The kind of row error the checks of a row give when they are made in the
\* order student lookup, grade membership, percentage parsing; "" when the row
\* passes the three.
FirstFailingStep(sheet, i) ==
    IF ~RowStudentExists(sheet, i) THEN "not_found"
    ELSE IF RowGrade(sheet, i) \notin GRADE_CHOICES THEN "invalid_grade"
    ELSE IF RowPercentageCell(sheet, i) # NaN /\ float(RowPercentageCell(sheet, i)) = None
      THEN "exception"
    ELSE ""

\* C22: Per-row validation order.  Every data row of an upload is checked in
\* the order student lookup, grade membership, percentage parsing, and the
\* errors recorded for the row are of the kind of the first failing step: an
\* unknown student with an unparseable percentage is 'student not found', an
\* invalid grade with an unparseable percentage is an invalid grade.
C22_ValidationOrder ==
    (UploadRan(last) /\ RequiredColumnsPresent(SheetOf(last))) =>
        \A sheet \in {SheetOf(last)} :
        \A i \in 1..Len(sheet.rows) :
            FirstFailingStep(sheet, i) # "" =>
                /\ ErrorsOfRow(last, i) # {}
                /\ \A k \in ErrorsOfRow(last, i) :
                      last.result[3][k].kind = FirstFailingStep(sheet, i)

\* process_excel_grades run once more, on the store as it is, with the
\* spreadsheet, course, semester, academic year and actor of the upload `req`.
RunAgain(req) ==
    process_excel_grades(SheetOf(req), CourseById(req.target), req.form.semester,
                         req.form.academic_year, req.user)

\* What the claim compares of a Grade record.
GradeValues(g) == <<GradeKey(g), g.grade, g.percentage, g.created_by>>

\* C23: Idempotent re-ingestion.  After an upload has run, running
\* process_excel_grades again with the same spreadsheet, course, semester,
\* academic year and actor leaves the Grade table as the first run left it
\* (same records: key, grade, percentage, created_by) and returns the same
\* success flag and the same list of row errors.
C23_IdempotentReingestion ==
    UploadRan(last) =>
        \A again \in {RunAgain(last)} :
            /\ {GradeValues(g) : g \in again.grades} = {GradeValues(g) : g \in grades}
            /\ Cardinality(again.grades) = Cardinality(grades)
            /\ Len(again.result) = Len(last.result)
            /\ again.result[1] = last.result[1]
            /\ Len(last.result) = 3 => again.result[3] = last.result[3]

\* The upload at hand wrote one tuple twice, with two grades, and created its
\* record; run again it creates nothing: the first row overwrites the stored
\* grade and the second restores it.
C23_Witness ==
    /\ UploadRan(last)
    /\ RequiredColumnsPresent(SheetOf(last))
    /\ Len(SheetOf(last).rows) = 2
    /\ RowStorable(SheetOf(last), 1)
    /\ RowStorable(SheetOf(last), 2)
    /\ RowStudentId(SheetOf(last), 1) = RowStudentId(SheetOf(last), 2)
    /\ RowGrade(SheetOf(last), 1) # RowGrade(SheetOf(last), 2)
    /\ \E g \in grades : /\ GradeKey(g) = RowKey(last, 2)
                         /\ g.grade = RowGrade(SheetOf(last), 2)
    /\ RunAgain(last).result[2].count = 0
    /\ last.result[2].count = 1

\* Nothing is attached to the course of id cid.
Bare(cid, los, pos, gs, tc) ==
    /\ LearningOutcomesOf(cid, los) = {}
    /\ ProgramOutcomesOf(cid, pos) = {}
    /\ GradesOf(cid, gs) = {}
    /\ TeachersOf(cid, tc) = {}

\* C24: Lock irreversibility through the views.  In every step (every request
\* to a view of urls.py, by any principal) a course that is locked is still
\* there and still locked after it; a course that a step creates locked has
\* no outcome, grade or teacher; and a locked course that has none is after
\* the step the same record and still has none.  A course created locked by
\* create_course is therefore never edited, deleted, or given outcomes,
\* grades or teachers.
C24_LockIrreversible ==
    [][/\ \A c \in courses :
             c.is_locked => \E d \in courses' : d.id = c.id /\ d.is_locked
       /\ \A d \in courses' :
             (d.is_locked /\ ~CourseExists(d.id)) =>
                 /\ last'.view = "create_course"
                 /\ Bare(d.id, learning_outcomes', program_outcomes', grades',
                         teacher_courses')
       /\ \A c \in courses :
             (c.is_locked /\ Bare(c.id, learning_outcomes, program_outcomes, grades,
                                  teacher_courses)) =>
                 /\ c \in courses'
                 /\ Bare(c.id, learning_outcomes', program_outcomes', grades',
                         teacher_courses')
      ]_vars

\* A locked course with nothing attached, and a board member's POST to
\* edit_course with is_locked unchecked that was refused with an error.
C24_Witness ==
    \E c \in courses :
        /\ c.is_locked
        /\ Bare(c.id, learning_outcomes, program_outcomes, grades, teacher_courses)
        /\ last.view = "edit_course"
        /\ last.method = "POST"
        /\ last.target = c.id
        /\ get_user_role(last.user) = "academic_board"
        /\ ~last.form.is_locked
        /\ IsErrorRedirect(last, "academic_board_course_detail")

\* C25: Upload target binding.  In every upload_grades step, whatever course
\* the form names, every Grade the step creates or changes belongs to the
\* course of the URL, check_grade_permission held for the requester on that
\* course before the step (it is unlocked and assigned to the requester), and
\* the grades of every other course, the course of the form among them, are
\* what they were.
C25_UploadTargetBinding ==
    [][(Idle /\ last'.view = "upload_grades") =>
          /\ \A g \in grades' \ grades :
                /\ g.course = last'.target
                /\ CourseExists(last'.target)
                /\ check_grade_permission(last'.user, CourseById(last'.target))
                /\ ~CourseById(last'.target).is_locked
                /\ last'.target \in teacher_courses[last'.user]
          /\ \A c \in courses :
                c.id # last'.target => GradesOf(c.id, grades') = GradesOf(c.id, grades)
      ]_vars

\* teacher1 posted to the URL of CS101 a form that names the locked CS102:
\* the grade of the sheet is a grade of CS101, CS102 has none.
C25_Witness ==
    /\ UploadRan(last)
    /\ last.user = "teacher1"
    /\ last.target = 1
    /\ last.form.course = 2
    /\ CourseById(2).is_locked
    /\ \E g \in grades : /\ GradeKey(g) = RowKey(last, 1)
                         /\ g.course = 1
                         /\ g.created_by = "teacher1"
    /\ GradesOf(2, grades) = {}

====
